---- MODULE Spec2Model ----
(***************************************************************************)
(* Faculty subject allocation: the greedy direct construction              *)
(* (FacultyScheduler.direct_solve), the CSP formulation                    *)
(* (FacultyScheduler.setup_csp, the four constraints), the hybrid          *)
(* pre-assignment and the backtracking engine (CSPSolver), and the drivers *)
(* that order them (main, run_with_sample, run_with_csp_only).             *)
(*                                                                         *)
(* Abstractions: names and time strings of the records are left out;       *)
(* preference_weight is kept in tenths and a preference score is kept as   *)
(* 250 times its value, so that the floating point products of the source  *)
(* are exact integers here; a Python dict is a sequence of <<key, value>>  *)
(* pairs in insertion order; the recursion of CSPSolver.backtrack is an    *)
(* explicit stack of frames.                                               *)
(***************************************************************************)
EXTENDS Integers, Sequences, FiniteSets, TLC

\* ---------------------------------------------------------------- bounds
NumFaculty == 2
NumSubjects == 2
NumClassrooms == 2
NumTimeslots == 2
MaxSearchSteps == 150
MaxLongSearchSteps == 4000

\* The assignment size at which forward_check and the constraints switch on
\* their debug reporting.
ForwardCheckDebugSize == 11
DefaultMaxHoursForRatio == 20

VARIABLES
    faculty,        \* FacultyScheduler.faculty: sequence of faculty records
    subjects,       \* FacultyScheduler.subjects
    classrooms,     \* FacultyScheduler.classrooms
    timeslots,      \* FacultyScheduler.timeslots
    driver,         \* which driver runs: "main" | "csp_only" | "seeded"
    pre_assignments,\* the pre_assignments argument of FacultyScheduler.solve
    pc,             \* position of the run
    schedule,       \* FacultyScheduler.schedule: sequence of entries
    ds,             \* locals of direct_solve
    direct_result,  \* "none" | "true" | "false": what direct_solve returned
    solver,         \* the CSPSolver object: variables, domains, assignment
    partial_assignment, \* local of FacultyScheduler.solve (hybrid loop)
    lab_idx,        \* position of the hybrid loop in lab_variables
    stack,          \* frames of CSPSolver.backtrack: [var, idx]
    solve_result,   \* "none" | "true" | "false": what FacultyScheduler.solve returned
    attempt,        \* which search of solve runs: "none" | "pre_assignments" | "hybrid"
    steps,          \* steps of the search taken so far (bounded)
    first_run,      \* what an earlier run on the same scheduler object returned
    runner,         \* run_with_csp_only: the driver and its solver thread
    score_call      \* a call of calculate_faculty_preference_score: arguments and result

vars == <<faculty, subjects, classrooms, timeslots, driver, pre_assignments, pc,
          schedule, ds, direct_result, solver, partial_assignment, lab_idx,
          stack, solve_result, attempt, steps, first_run, runner, score_call>>

tables == <<faculty, subjects, classrooms, timeslots>>

\* ---------------------------------------------------------------- helpers

\* dict.get(key, default)
Get(rec, key, default) == IF key \in DOMAIN rec THEN rec[key] ELSE default

Range(seq) == {seq[i] : i \in 1..Len(seq)}

Max(a, b) == IF a >= b THEN a ELSE b
Min(a, b) == IF a <= b THEN a ELSE b
Abs(x) == IF x < 0 THEN -x ELSE x

RECURSIVE SumOver(_, _)
SumOver(S, f) ==
    IF S = {} THEN 0
    ELSE LET x == CHOOSE y \in S : TRUE IN f[x] + SumOver(S \ {x}, f)

\* Python's list.sort / sorted with a key: stable and ascending.  keyOf[i] is
\* the key of seq[i], evaluated once per element; an element goes after every
\* element with a smaller key and after the earlier elements with an equal
\* key.
RECURSIVE PlaceByRank(_, _, _)
PlaceByRank(seq, ranks, n) ==
    IF n = 0 THEN <<>>
    ELSE Append(PlaceByRank(seq, ranks, n - 1),
                seq[(CHOOSE r \in ranks : r[2] = n)[1]])

\* Comparison of two sort keys: integers, 2-tuples as Python compares them,
\* or fractions <<numerator, denominator>> with positive denominators.
KeyLess(kind, a, b) ==
    CASE kind = "int" -> a < b
      [] kind = "pair" -> a[1] < b[1] \/ (a[1] = b[1] /\ a[2] < b[2])
      [] kind = "fraction" -> a[1] * b[2] < b[1] * a[2]

SortBy(seq, keyOf, kind) ==
    LET n == Len(seq)
        keys == { <<i, keyOf[i]>> : i \in 1..n }
        ranks == { <<p[1], 1 + Cardinality({ q \in keys :
                              /\ q[1] # p[1]
                              /\ \/ KeyLess(kind, q[2], p[2])
                                 \/ (~KeyLess(kind, p[2], q[2]) /\ q[1] < p[1]) })>> :
                   p \in keys }
    IN PlaceByRank(seq, ranks, n)

\* keys compared as Python compares 2-tuples
PairLess(a, b) == KeyLess("pair", a, b)

\* next((x for x in table if x['id'] == id), None): the first record with the id
ById(table, id) ==
    LET hits == {i \in 1..Len(table) : table[i].id = id}
    IN table[CHOOSE i \in hits : \A j \in hits : i <= j]

HasId(table, id) == \E i \in 1..Len(table) : table[i].id = id

\* ---------------------------------------------------------------- inputs

\* Faculty preferences a record may carry; DefaultProfile is what
\* ExcelHandler.read_faculty_data fills in for a sheet without preference
\* columns (preference_weight in tenths).
DefaultProfile ==
    [day_preferences |-> {"Monday", "Tuesday", "Wednesday", "Thursday", "Friday"},
     time_preferences |-> {"Morning", "Afternoon"},
     preference_weight |-> 10,
     consecutive_classes_preference |-> 0]

PrefProfiles ==
    { DefaultProfile,
      [day_preferences |-> {"Tuesday"},
       time_preferences |-> {"Afternoon"},
       preference_weight |-> 50,
       consecutive_classes_preference |-> -5] }

MaxHoursValues == {1, 4}
FirstFacultyMaxHoursValues == {1, 3, 4}
HoursValues == {1, 3}
LabHoursValues == {0, 2}

\* The first faculty keeps the default preferences and takes one more value of
\* max_hours; the others take any profile.
FacultyRecords(i) ==
    { [id |-> i, qualified_subjects |-> q, max_hours |-> m,
       day_preferences |-> p.day_preferences,
       time_preferences |-> p.time_preferences,
       preference_weight |-> p.preference_weight,
       consecutive_classes_preference |-> p.consecutive_classes_preference] :
        q \in SUBSET (1..NumSubjects),
        m \in IF i = 1 THEN FirstFacultyMaxHoursValues ELSE MaxHoursValues,
        p \in IF i = 1 THEN {DefaultProfile} ELSE PrefProfiles }

\* The first subject takes any hours; the others take the largest.
SubjectRecords(i) ==
    { [id |-> i, hours |-> h, lab_hours |-> l] :
        h \in IF i = 1 THEN HoursValues ELSE {3}, l \in LabHoursValues }

\* A Classrooms sheet either has the has_lab column in every row or in none.
ClassroomTables ==
    { [i \in 1..NumClassrooms |-> [id |-> i, has_lab |-> f[i]]] :
        f \in [1..NumClassrooms -> BOOLEAN] }
    \cup { [i \in 1..NumClassrooms |-> [id |-> i]] }

TimeslotTables ==
    { [i \in 1..NumTimeslots |->
          [id |-> i, day |-> "Monday",
           period |-> IF i = 1 THEN "Morning" ELSE "Afternoon"]],
      [i \in 1..NumTimeslots |->
          [id |-> i, day |-> IF i = 1 THEN "Monday" ELSE "Tuesday",
           period |-> "Morning"]] }

\* create_sample_input, simple dataset
SampleFaculty ==
    << [id |-> 1, qualified_subjects |-> {1, 2}, max_hours |-> 20,
        day_preferences |-> {"Monday", "Tuesday", "Wednesday"},
        time_preferences |-> {"Morning"}, preference_weight |-> 30,
        consecutive_classes_preference |-> 2],
       [id |-> 2, qualified_subjects |-> {2, 3, 4}, max_hours |-> 20,
        day_preferences |-> {"Tuesday", "Thursday"},
        time_preferences |-> {"Afternoon"}, preference_weight |-> 40,
        consecutive_classes_preference |-> -3],
       [id |-> 3, qualified_subjects |-> {1, 3, 5}, max_hours |-> 20,
        day_preferences |-> {"Monday", "Wednesday", "Friday"},
        time_preferences |-> {"Morning", "Afternoon"}, preference_weight |-> 20,
        consecutive_classes_preference |-> 0],
       [id |-> 4, qualified_subjects |-> {4, 5}, max_hours |-> 20,
        day_preferences |-> {"Thursday", "Friday"},
        time_preferences |-> {"Morning"}, preference_weight |-> 50,
        consecutive_classes_preference |-> 5] >>

SampleSubjects ==
    << [id |-> 1, hours |-> 3, lab_hours |-> 2],
       [id |-> 2, hours |-> 4, lab_hours |-> 2],
       [id |-> 3, hours |-> 3, lab_hours |-> 0],
       [id |-> 4, hours |-> 3, lab_hours |-> 0],
       [id |-> 5, hours |-> 4, lab_hours |-> 0] >>

SampleClassrooms ==
    << [id |-> 1, has_lab |-> FALSE], [id |-> 2, has_lab |-> FALSE],
       [id |-> 3, has_lab |-> TRUE], [id |-> 4, has_lab |-> TRUE] >>

SampleTimeslots ==
    << [id |-> 1, day |-> "Monday", period |-> "Morning"],
       [id |-> 2, day |-> "Monday", period |-> "Morning"],
       [id |-> 3, day |-> "Tuesday", period |-> "Morning"],
       [id |-> 4, day |-> "Tuesday", period |-> "Morning"],
       [id |-> 5, day |-> "Wednesday", period |-> "Morning"],
       [id |-> 6, day |-> "Wednesday", period |-> "Morning"] >>

IsSample ==
    /\ faculty = SampleFaculty
    /\ subjects = SampleSubjects
    /\ classrooms = SampleClassrooms
    /\ timeslots = SampleTimeslots

\* ---------------------------------------------------------------- records

IsLabSubject(s) == Get(s, "lab_hours", 0) > 0
HasLab(c) == Get(c, "has_lab", FALSE)

\* ---------------------------------------------------------------- scoring

\* calculate_faculty_preference_score, times 250; current_schedule maps a
\* faculty id to the set of timeslot ids it already teaches at.
\* Variant of AdjacentTimeslots that does not look at the day.
AdjacentTimeslotsAnyDay(timeslot) ==
    { ts.id : ts \in { t \in Range(timeslots) :
                         /\ t.id # timeslot.id
                         /\ Abs(t.id - timeslot.id) = 1 } }

AdjacentTimeslots(timeslot) ==
    { ts.id : ts \in { t \in Range(timeslots) :
                         /\ t.day = timeslot.day
                         /\ t.id # timeslot.id
                         /\ Abs(t.id - timeslot.id) = 1 } }

calculate_faculty_preference_score(f, timeslot, current_schedule) ==
    LET day_score == IF timeslot.day \in f.day_preferences THEN 15 ELSE 0
        period_score == IF timeslot.period \in f.time_preferences THEN 10 ELSE 0
        has_adjacent_class ==
            /\ f.id \in DOMAIN current_schedule
            /\ \E ts_id \in AdjacentTimeslots(timeslot) : ts_id \in current_schedule[f.id]
        consecutive == IF has_adjacent_class
                       THEN 2 * f.consecutive_classes_preference ELSE 0
        normalized_weight == Min(50, Max(1, f.preference_weight))
    IN (day_score + period_score + consecutive) * normalized_weight


\* ---------------------------------------------------------------- state

\* no earlier run on the scheduler object
NoRun == [ran |-> FALSE, direct_result |-> "none", solve_result |-> "none",
          schedule |-> <<>>, assignment |-> <<>>]

\* run_with_csp_only before it creates the solver thread
NoRunner == [main |-> "create", thread |-> "none", solution_found |-> FALSE,
             join_expired |-> FALSE, seen_alive |-> FALSE, reported |-> "none",
             displayed |-> FALSE, saved |-> FALSE, exit_code |-> -1]

\* no call of calculate_faculty_preference_score is being followed
NoScoreCall == [returned |-> FALSE]

\* CSPSolver.__init__
NewSolver == [variables |-> <<>>, domains |-> <<>>, assignment |-> <<>>]

FacultyIds == {faculty[i].id : i \in 1..Len(faculty)}

\* The tracking structures direct_solve starts with.
DirectLocals ==
    [idx |-> 1,
     faculty_hours |-> [f \in FacultyIds |-> 0],
     faculty_timeslots |-> [f \in FacultyIds |-> {}],
     used_classroom_timeslots |-> {}]

SmallInstance ==
    /\ faculty \in [1..NumFaculty -> UNION {FacultyRecords(i) : i \in 1..NumFaculty}]
    /\ \A i \in 1..NumFaculty : faculty[i].id = i
    /\ subjects \in [1..NumSubjects -> UNION {SubjectRecords(i) : i \in 1..NumSubjects}]
    /\ \A i \in 1..NumSubjects : subjects[i].id = i
    /\ classrooms \in ClassroomTables
    /\ timeslots \in TimeslotTables

SampleInstance ==
    /\ faculty = SampleFaculty
    /\ subjects = SampleSubjects
    /\ classrooms = SampleClassrooms
    /\ timeslots = SampleTimeslots

Init ==
    /\ SmallInstance \/ SampleInstance
    /\ driver \in {"main", "csp_only", "seeded"}
    /\ pre_assignments = <<>>
    /\ pc = "start"
    /\ schedule = <<>>
    /\ ds = DirectLocals
    /\ direct_result = "none"
    /\ solver = NewSolver
    /\ partial_assignment = <<>>
    /\ lab_idx = 0
    /\ stack = <<>>
    /\ solve_result = "none"
    /\ attempt = "none"
    /\ steps = 0
    /\ first_run = NoRun
    /\ runner = NoRunner
    /\ score_call = NoScoreCall

\* ---------------------------------------------------------------- direct_solve

\* Variant of DirectOrderedSubjects in which the second list is not filtered
\* to the subjects without lab hours.
DirectOrderedSubjectsUnfiltered ==
    LET labKey(s) == -(Get(s, "hours", 0) + Get(s, "lab_hours", 0))
        hoursKey(s) == -Get(s, "hours", 0)
        isLab(s) == Get(s, "lab_hours", 0) > 0
        labs == SelectSeq(subjects, isLab)
    IN SortBy(labs, [i \in 1..Len(labs) |-> labKey(labs[i])], "int")
       \o SortBy(subjects, [i \in 1..Len(subjects) |-> hoursKey(subjects[i])], "int")

\* lab subjects by hours + lab_hours descending, then the others by hours
\* descending (sorted(..., reverse=True) keeps equal keys in table order)
DirectOrderedSubjects ==
    LET labKey(s) == -(Get(s, "hours", 0) + Get(s, "lab_hours", 0))
        hoursKey(s) == -Get(s, "hours", 0)
        isLab(s) == Get(s, "lab_hours", 0) > 0
        notLab(s) == Get(s, "lab_hours", 0) = 0
        labs == SelectSeq(subjects, isLab)
        others == SelectSeq(subjects, notLab)
    IN SortBy(labs, [i \in 1..Len(labs) |-> labKey(labs[i])], "int")
       \o SortBy(others, [i \in 1..Len(others) |-> hoursKey(others[i])], "int")

\* lab_classrooms of direct_solve: has_lab read with the default True
DirectLabClassrooms ==
    LET keep(c) == Get(c, "has_lab", TRUE) IN SelectSeq(classrooms, keep)

DirectPossibleClassrooms(subject) ==
    IF IsLabSubject(subject) THEN DirectLabClassrooms ELSE classrooms

\* faculty_score = hour_ratio - 0.5 * specialization, as the fraction
\* <<numerator, denominator>> with a positive denominator
faculty_score(f, d) ==
    LET q == Max(1, Cardinality(f.qualified_subjects))
        m == Get(f, "max_hours", DefaultMaxHoursForRatio)
    IN IF m > 0 THEN <<2 * q * d.faculty_hours[f.id] - m, 2 * q * m>>
       ELSE <<-1, 2 * q>>

DirectQualifiedFaculty(subject, d) ==
    LET qualified(f) == subject.id \in f.qualified_subjects
        key(f) == faculty_score(f, d)
        cands == SelectSeq(faculty, qualified)
    IN SortBy(cands, [i \in 1..Len(cands) |-> key(cands[i])], "fraction")

\* classrooms of the list that are free at the timeslot, in list order
DirectFreeClassrooms(possible, timeslot_id, d) ==
    LET free(c) == <<c.id, timeslot_id>> \notin d.used_classroom_timeslots
    IN SelectSeq(possible, free)

\* the free timeslots of a faculty, by (-preference score, free classroom count)
DirectScoredTimeslots(f, subject, d) ==
    LET possible == DirectPossibleClassrooms(subject)
        free(t) == t.id \notin d.faculty_timeslots[f.id]
        key(t) == << -calculate_faculty_preference_score(f, t, d.faculty_timeslots),
                     Len(DirectFreeClassrooms(possible, t.id, d)) >>
        slots == SelectSeq(timeslots, free)
    IN SortBy(slots, [i \in 1..Len(slots) |-> key(slots[i])], "pair")

\* Variant of DirectSortedClassrooms that leaves out the suitability sort.
DirectUnsortedClassrooms(subject, timeslot_id, d) ==
    DirectFreeClassrooms(DirectPossibleClassrooms(subject), timeslot_id, d)

\* available_classrooms after the suitability sort
DirectSortedClassrooms(subject, timeslot_id, d) ==
    LET avail == DirectFreeClassrooms(DirectPossibleClassrooms(subject), timeslot_id, d)
        labKey(c) == IF HasLab(c) THEN 0 ELSE 1
        regKey(c) == IF HasLab(c) THEN 1 ELSE 0
    IN IF IsLabSubject(subject)
       THEN SortBy(avail, [i \in 1..Len(avail) |-> labKey(avail[i])], "int")
       ELSE SortBy(avail, [i \in 1..Len(avail) |-> regKey(avail[i])], "int")

\* Variant of DirectExceedsHours that compares the hours given so far only.
DirectExceedsHoursBefore(f, subject, d) ==
    d.faculty_hours[f.id] > Get(f, "max_hours", 0)

\* the faculty test of the assignment loop: true when the faculty is skipped
DirectExceedsHours(f, subject, d) ==
    d.faculty_hours[f.id] + Get(subject, "hours", 0) > Get(f, "max_hours", 0)

NoChoice == [found |-> FALSE, faculty_id |-> 0, timeslot_id |-> 0, classroom_id |-> 0]

\* What the timeslot and classroom loops reach for one candidate faculty.
DirectTryFaculty(f, subject, d) ==
    IF DirectExceedsHours(f, subject, d) THEN NoChoice
    ELSE LET slots == DirectScoredTimeslots(f, subject, d)
             rooms == { <<k, DirectSortedClassrooms(subject, slots[k].id, d)>> :
                          k \in 1..Len(slots) }
             usable == { r \in rooms : r[2] # <<>> }
         IN IF usable = {} THEN NoChoice
            ELSE LET r == CHOOSE x \in usable : \A y \in usable : x[1] <= y[1]
                 IN [found |-> TRUE, faculty_id |-> f.id,
                     timeslot_id |-> slots[r[1]].id, classroom_id |-> r[2][1].id]

\* The first (faculty, timeslot, classroom) the three nested loops reach, or
\* found = FALSE when they run out.
DirectChoice(subject, d) ==
    LET cands == DirectQualifiedFaculty(subject, d)
        tries == { <<i, DirectTryFaculty(cands[i], subject, d)>> : i \in 1..Len(cands) }
        hits == { r \in tries : r[2].found }
    IN IF hits = {} THEN NoChoice
       ELSE (CHOOSE r \in hits : \A q \in hits : r[1] <= q[1])[2]

DirectEntry(subject, ch) ==
    [faculty_id |-> ch.faculty_id,
     faculty_name |-> Get(ById(faculty, ch.faculty_id), "name", ""),
     subject_id |-> subject.id,
     subject_name |-> Get(subject, "name", ""),
     has_lab |-> IsLabSubject(subject), timeslot_id |-> ch.timeslot_id,
     timeslot_day |-> Get(ById(timeslots, ch.timeslot_id), "day", ""),
     timeslot_time |-> Get(ById(timeslots, ch.timeslot_id), "time", ""),
     classroom_id |-> ch.classroom_id,
     classroom_name |-> Get(ById(classrooms, ch.classroom_id), "name", ""),
     made_by |-> "direct_solve"]

\* Variant of DirectSolveBegin in which the driver goes to
\* FacultyScheduler.solve without calling direct_solve.
DirectSolveSkipped ==
    /\ pc = "start"
    /\ driver = "main"
    /\ pc' = "solve"
    /\ UNCHANGED <<tables, score_call, runner, first_run, driver, pre_assignments, schedule, ds, direct_result,
                   solver, partial_assignment, lab_idx, stack, solve_result,
                   attempt, steps>>

\* Variant of DirectSolveBegin that does not clear the schedule.
DirectSolveBeginKeepsSchedule ==
    /\ pc = "start"
    /\ driver = "main"
    /\ ds' = DirectLocals
    /\ pc' = "direct"
    /\ UNCHANGED <<tables, score_call, runner, first_run, driver, pre_assignments, schedule, direct_result,
                   solver, partial_assignment, lab_idx, stack, solve_result,
                   attempt, steps>>

\* main / run_with_sample call direct_solve first; it clears the schedule.
DirectSolveBegin ==
    /\ pc = "start"
    /\ driver = "main"
    /\ schedule' = <<>>
    /\ ds' = DirectLocals
    /\ pc' = "direct"
    /\ UNCHANGED <<tables, score_call, runner, first_run, driver, pre_assignments, direct_result, solver,
                   partial_assignment, lab_idx, stack, solve_result, attempt, steps>>

\* One pass of the subject loop: it commits an entry, or it finds nothing and
\* direct_solve returns False; the driver then falls back to
\* FacultyScheduler.solve.
DirectSolveSubject ==
    /\ pc = "direct"
    /\ LET ordered == DirectOrderedSubjects IN
       /\ ds.idx <= Len(ordered)
       /\ LET subject == ordered[ds.idx]
              ch == DirectChoice(subject, ds)
          IN IF ch.found
             THEN /\ schedule' = Append(schedule, DirectEntry(subject, ch))
                  /\ ds' = [idx |-> ds.idx + 1,
                            faculty_hours |->
                                [ds.faculty_hours EXCEPT
                                    ![ch.faculty_id] = @ + Get(subject, "hours", 0)],
                            faculty_timeslots |->
                                [ds.faculty_timeslots EXCEPT
                                    ![ch.faculty_id] = @ \cup {ch.timeslot_id}],
                            used_classroom_timeslots |->
                                ds.used_classroom_timeslots
                                    \cup {<<ch.classroom_id, ch.timeslot_id>>}]
                  /\ UNCHANGED <<pc, direct_result>>
             ELSE /\ direct_result' = "false"
                  /\ pc' = "solve"
                  /\ UNCHANGED <<schedule, ds>>
    /\ UNCHANGED <<tables, score_call, runner, first_run, driver, pre_assignments, solver,
                   partial_assignment, lab_idx, stack, solve_result, attempt, steps>>

\* The subject loop ran out: direct_solve returns True and the driver reports
\* the schedule.
DirectSolveSucceed ==
    /\ pc = "direct"
    /\ ds.idx > Len(DirectOrderedSubjects)
    /\ direct_result' = "true"
    /\ pc' = "done"
    /\ UNCHANGED <<tables, score_call, runner, first_run, driver, pre_assignments, schedule, ds, solver,
                   partial_assignment, lab_idx, stack, solve_result, attempt, steps>>

\* ---------------------------------------------------------------- dicts

\* A dict is a sequence of <<key, value>> pairs in insertion order.
DictKeys(d) == {d[i][1] : i \in 1..Len(d)}

DictGet(d, key) == d[CHOOSE i \in 1..Len(d) : d[i][1] = key][2]

\* d[key] = value: an existing key keeps its place, a new one goes last
DictSet(d, key, value) ==
    IF key \in DictKeys(d)
    THEN [i \in 1..Len(d) |-> IF d[i][1] = key THEN <<key, value>> ELSE d[i]]
    ELSE Append(d, <<key, value>>)

\* del d[key]
DictDel(d, key) == LET keep(p) == p[1] # key IN SelectSeq(d, keep)

\* ---------------------------------------------------------------- constraints
\* An assignment maps a variable <<subject_id, timeslot_id>> to a value
\* <<faculty_id, classroom_id>>.

\* Variant of faculty_requirements_constraint that counts the subjects of a
\* faculty instead of their hours.
faculty_requirements_by_count(assignment) ==
    LET n == Len(assignment)
        faculty_subjects(f) ==
            { assignment[i][1][1] : i \in { j \in 1..n : assignment[j][2][1] = f } }
    IN \A f \in { assignment[i][2][1] : i \in 1..n } :
          HasId(faculty, f) =>
              ~(Cardinality(faculty_subjects(f)) > Get(ById(faculty, f), "max_hours", 0))

faculty_requirements_constraint(assignment) ==
    LET n == Len(assignment)
        faculty_subjects(f) ==
            { assignment[i][1][1] : i \in { j \in 1..n : assignment[j][2][1] = f } }
        hoursOf == [sid \in {subjects[i].id : i \in 1..Len(subjects)} |->
                        Get(ById(subjects, sid), "hours", 0)]
        faculty_hours(f) ==
            SumOver({ sid \in faculty_subjects(f) : HasId(subjects, sid) }, hoursOf)
    IN \A f \in { assignment[i][2][1] : i \in 1..n } :
          HasId(faculty, f) =>
              ~(faculty_hours(f) > Get(ById(faculty, f), "max_hours", 0))

no_faculty_conflicts_constraint(assignment) ==
    \A i, j \in 1..Len(assignment) :
        i < j => ~(/\ assignment[i][2][1] = assignment[j][2][1]
                   /\ assignment[i][1][2] = assignment[j][1][2])

no_classroom_collision_constraint(assignment) ==
    \A i, j \in 1..Len(assignment) :
        i < j => ~(/\ assignment[i][2][2] = assignment[j][2][2]
                   /\ assignment[i][1][2] = assignment[j][1][2])

handle_labs_constraint(assignment) ==
    LET subjects_with_labs ==
            { subjects[i].id : i \in { j \in 1..Len(subjects) : IsLabSubject(subjects[j]) } }
    IN \A i \in 1..Len(assignment) :
          (/\ assignment[i][1][1] \in subjects_with_labs
           /\ HasId(classrooms, assignment[i][2][2]))
              => HasLab(ById(classrooms, assignment[i][2][2]))

\* Variant of AllConstraints without no_classroom_collision_constraint.
ConstraintsWithoutClassroomCollision(assignment) ==
    /\ faculty_requirements_constraint(assignment)
    /\ no_faculty_conflicts_constraint(assignment)
    /\ handle_labs_constraint(assignment)

\* add_constraints registers the four and is_consistent runs them in order.
AllConstraints(assignment) ==
    /\ faculty_requirements_constraint(assignment)
    /\ no_faculty_conflicts_constraint(assignment)
    /\ no_classroom_collision_constraint(assignment)
    /\ handle_labs_constraint(assignment)

\* ---------------------------------------------------------------- CSPSolver

\* Variant of is_consistent that runs the constraints on the assignment as it
\* is before the value is added.
is_consistent_before_adding(variable, value, assignment) ==
    AllConstraints(assignment)

is_consistent(variable, value, assignment) ==
    AllConstraints(DictSet(assignment, variable, value))

\* Variant of select_unassigned_variable that takes the first unassigned
\* variable.
first_unassigned_variable(sv) ==
    LET assigned == DictKeys(sv.assignment)
        notAssigned(v) == v \notin assigned
        unassigned == SelectSeq(sv.variables, notAssigned)
    IN IF unassigned = <<>> THEN <<>> ELSE <<unassigned[1]>>

\* MRV with the degree count as tie-break; min() returns the first minimum.
select_unassigned_variable(sv) ==
    LET assigned == DictKeys(sv.assignment)
        notAssigned(v) == v \notin assigned
        unassigned == SelectSeq(sv.variables, notAssigned)
        n == Len(unassigned)
        count_constraints(i) ==
            Cardinality({ j \in 1..n :
                /\ unassigned[j] # unassigned[i]
                /\ \/ unassigned[i][1] = unassigned[j][1]
                   \/ unassigned[i][2] = unassigned[j][2] })
        keys == { <<i, <<Len(sv.domains[unassigned[i]]), -count_constraints(i)>>>> :
                    i \in 1..n }
        best == CHOOSE p \in keys :
                    \A q \in keys : \/ PairLess(p[2], q[2])
                                    \/ (~PairLess(q[2], p[2]) /\ p[1] <= q[1])
    IN IF n = 0 THEN <<>> ELSE <<unassigned[best[1]]>>

\* Variant of order_domain_values that keeps only the first value.
first_domain_value(sv, var) == SubSeq(sv.domains[var], 1, 1)

\* Variant of order_domain_values that returns the domain last value first.
reversed_domain_values(sv, var) ==
    [k \in 1..Len(sv.domains[var]) |-> sv.domains[var][Len(sv.domains[var]) + 1 - k]]

\* order_domain_values returns the domain as registered.
order_domain_values(sv, var) == sv.domains[var]

\* Variant of forward_check that takes a variable for wiped out as soon as
\* one value of its domain is inconsistent.
forward_check_any_value(sv, var, value) ==
    LET temp_assignment == DictSet(sv.assignment, var, value)
        wiped == { i \in 1..Len(sv.variables) :
                     /\ sv.variables[i] \notin DictKeys(temp_assignment)
                     /\ \E k \in 1..Len(sv.domains[sv.variables[i]]) :
                          ~is_consistent(sv.variables[i],
                                         sv.domains[sv.variables[i]][k],
                                         temp_assignment) }
        wipeouts == IF Len(temp_assignment) = ForwardCheckDebugSize
                    THEN Cardinality(wiped) ELSE 0
    IN ~(wipeouts > 0)

\* forward_check counts a wiped-out variable only while the extended
\* assignment has the debug size, and returns False only on a counted wipeout.
forward_check(sv, var, value) ==
    LET temp_assignment == DictSet(sv.assignment, var, value)
        wiped == { i \in 1..Len(sv.variables) :
                     /\ sv.variables[i] \notin DictKeys(temp_assignment)
                     /\ \A k \in 1..Len(sv.domains[sv.variables[i]]) :
                          ~is_consistent(sv.variables[i],
                                         sv.domains[sv.variables[i]][k],
                                         temp_assignment) }
        wipeouts == IF Len(temp_assignment) = ForwardCheckDebugSize
                    THEN Cardinality(wiped) ELSE 0
    IN ~(wipeouts > 0)

\* ---------------------------------------------------------------- setup_csp

\* lab subjects first, each group in table order
SetupOrderedSubjects ==
    LET isLab(s) == Get(s, "lab_hours", 0) > 0
        notLab(s) == Get(s, "lab_hours", 0) = 0
    IN SelectSeq(subjects, isLab) \o SelectSeq(subjects, notLab)

\* Variant of SetupSuitableFaculty without the qualification filter.
SetupEveryFaculty(subject) == faculty

SetupSuitableFaculty(subject) ==
    LET qualified(f) == subject.id \in f.qualified_subjects
    IN SelectSeq(faculty, qualified)

SetupEligibleClassrooms(subject) ==
    IF IsLabSubject(subject) THEN SelectSeq(classrooms, HasLab) ELSE classrooms

\* Variant of SetupDomain that leaves the pairs in the order they are
\* generated.
SetupDomainUnsorted(subject, timeslot) ==
    LET fs == SetupSuitableFaculty(subject)
        cs == SetupEligibleClassrooms(subject)
        nc == Len(cs)
    IN [k \in 1..(Len(fs) * nc) |->
           <<fs[((k - 1) \div nc) + 1].id, cs[((k - 1) % nc) + 1].id>>]

\* The (faculty_id, classroom_id) pairs of a variable, by preference score of
\* the faculty for the timeslot, highest first, ties in generation order.
SetupDomain(subject, timeslot) ==
    LET fs == SetupSuitableFaculty(subject)
        cs == SetupEligibleClassrooms(subject)
        nf == Len(fs)
        nc == Len(cs)
        scoreOf == { <<i, calculate_faculty_preference_score(
                             ById(faculty, fs[i].id), timeslot, <<>>)>> : i \in 1..nf }
        score(i) == (CHOOSE p \in scoreOf : p[1] = i)[2]
        domain_values ==
            [k \in 1..(nf * nc) |->
                << <<fs[((k - 1) \div nc) + 1].id, cs[((k - 1) % nc) + 1].id>>,
                   score(((k - 1) \div nc) + 1) >>]
        key(v) == -v[2]
        sorted == SortBy(domain_values,
                         [k \in 1..(nf * nc) |-> key(domain_values[k])], "int")
    IN [k \in 1..Len(sorted) |-> sorted[k][1]]

\* setup_csp: a fresh solver with one variable per (subject, timeslot) whose
\* domain is not empty.
setup_csp ==
    LET ordered == SetupOrderedSubjects
        nt == Len(timeslots)
        all == { <<k, <<ordered[((k - 1) \div nt) + 1].id, timeslots[((k - 1) % nt) + 1].id>>,
                   SetupDomain(ordered[((k - 1) \div nt) + 1], timeslots[((k - 1) % nt) + 1])>> :
                 k \in 1..(Len(ordered) * nt) }
        kept == { a \in all : a[3] # <<>> }
        pos(a) == Cardinality({ b \in kept : b[1] <= a[1] })
        variables == [k \in 1..Cardinality(kept) |-> (CHOOSE a \in kept : pos(a) = k)[2]]
    IN [variables |-> variables,
        domains |-> [v \in { a[2] : a \in kept } |-> (CHOOSE a \in kept : a[2] = v)[3]],
        assignment |-> <<>>]

\* ---------------------------------------------------------------- solve

Last(seq) == seq[Len(seq)]

\* The pre_assignments a caller may pass: none, or one registered variable
\* (the first or the last) bound to the last value of its domain.
PreAssignmentChoices(sv) ==
    IF sv.variables = <<>> THEN { <<>> }
    ELSE { << <<v, Last(sv.domains[v])>> >> : v \in {sv.variables[1], Last(sv.variables)} }

\* FacultyScheduler.solve up to the first use of the solver: setup_csp and
\* add_constraints.
SolveSetup ==
    /\ \/ pc = "solve"
       \/ pc = "start" /\ driver \in {"csp_only", "seeded"}
    /\ LET sv == setup_csp IN
       /\ solver' = sv
       /\ IF driver = "seeded"
          THEN pre_assignments' \in PreAssignmentChoices(sv)
          ELSE pre_assignments' = <<>>
    /\ pc' = IF pre_assignments' # <<>> THEN "pre" ELSE "hybrid"
    /\ attempt' = IF pre_assignments' # <<>> THEN "pre_assignments" ELSE "hybrid"
    /\ partial_assignment' = <<>>
    /\ lab_idx' = 1
    /\ UNCHANGED <<tables, score_call, runner, first_run, driver, schedule, ds, direct_result, stack,
                   solve_result, steps>>

\* self.solver.assignment = pre_assignments.copy()
SolveSeedPreAssignments ==
    /\ pc = "pre"
    /\ solver' = [solver EXCEPT !.assignment = pre_assignments]
    /\ pc' = "call_solve"
    /\ UNCHANGED <<tables, score_call, runner, first_run, driver, pre_assignments, schedule, ds, direct_result,
                   partial_assignment, lab_idx, stack, solve_result, attempt, steps>>

\* lab_variables of the hybrid loop: the registered variables of lab
\* subjects by (subject_id, timeslot_id)
HybridLabVariables(sv) ==
    LET lab_subjects ==
            { subjects[i].id : i \in { j \in 1..Len(subjects) : IsLabSubject(subjects[j]) } }
        isLabVar(v) == v[1] \in lab_subjects
        key(v) == v
        labVars == SelectSeq(sv.variables, isLabVar)
    IN SortBy(labVars, [i \in 1..Len(labVars) |-> key(labVars[i])], "pair")

\* Variant of HybridFirstValue that takes the last such value of the domain.
HybridLastValue(sv, var, partial) ==
    LET lab_classrooms == { classrooms[i].id : i \in { j \in 1..Len(classrooms) : HasLab(classrooms[j]) } }
        dom == sv.domains[var]
        good == { k \in 1..Len(dom) :
                    /\ dom[k][2] \in lab_classrooms
                    /\ is_consistent(var, dom[k], partial) }
    IN IF good = {} THEN <<>> ELSE << dom[CHOOSE k \in good : \A m \in good : k >= m] >>

\* The first domain value in a lab classroom that is consistent with the
\* partial assignment: <<value>>, or <<>> when there is none.
HybridFirstValue(sv, var, partial) ==
    LET lab_classrooms == { classrooms[i].id : i \in { j \in 1..Len(classrooms) : HasLab(classrooms[j]) } }
        dom == sv.domains[var]
        good == { k \in 1..Len(dom) :
                    /\ dom[k][2] \in lab_classrooms
                    /\ is_consistent(var, dom[k], partial) }
    IN IF good = {} THEN <<>> ELSE << dom[CHOOSE k \in good : \A m \in good : k <= m] >>

\* One pass of the pre-assignment loop over lab_variables.
HybridPreAssign ==
    /\ pc = "hybrid"
    /\ LET lab_variables == HybridLabVariables(solver) IN
       /\ lab_idx <= Len(lab_variables)
       /\ LET var == lab_variables[lab_idx]
              found == HybridFirstValue(solver, var, partial_assignment)
          IN partial_assignment' =
                IF found # <<>> THEN DictSet(partial_assignment, var, found[1])
                ELSE partial_assignment
    /\ lab_idx' = lab_idx + 1
    /\ UNCHANGED <<tables, score_call, runner, first_run, driver, pre_assignments, pc, schedule, ds, direct_result,
                   solver, stack, solve_result, attempt, steps>>

\* self.solver.assignment = partial_assignment.copy()
HybridSeed ==
    /\ pc = "hybrid"
    /\ lab_idx > Len(HybridLabVariables(solver))
    /\ solver' = [solver EXCEPT !.assignment = partial_assignment]
    /\ pc' = "call_solve"
    /\ UNCHANGED <<tables, score_call, runner, first_run, driver, pre_assignments, schedule, ds, direct_result,
                   partial_assignment, lab_idx, stack, solve_result, attempt, steps>>

\* The search on the sample dataset is followed for MaxSearchSteps steps, any
\* other search for MaxLongSearchSteps steps.
SearchStepLimit == IF IsSample THEN MaxSearchSteps ELSE MaxLongSearchSteps

\* CSPSolver.solve: the assignment is reset and backtrack is entered.
CSPSolverSolve ==
    /\ pc = "call_solve"
    /\ solver' = [solver EXCEPT !.assignment = <<>>]
    /\ stack' = <<>>
    /\ pc' = "bt_enter"
    /\ UNCHANGED <<tables, score_call, runner, first_run, driver, pre_assignments, schedule, ds, direct_result,
                   partial_assignment, lab_idx, solve_result, attempt, steps>>

\* Entry of one backtrack call: the completeness test and the variable
\* selection.  A complete assignment is returned through every frame.
BacktrackEnter ==
    /\ pc = "bt_enter"
    /\ steps < SearchStepLimit
    /\ steps' = steps + 1
    /\ IF Len(solver.assignment) = Len(solver.variables)
       THEN /\ pc' = "returned_solution"
            /\ stack' = <<>>
       ELSE LET sel == select_unassigned_variable(solver) IN
            IF sel = <<>>
            THEN /\ pc' = "bt_return_none"
                 /\ UNCHANGED stack
            ELSE /\ stack' = Append(stack, [var |-> sel[1], idx |-> 1])
                 /\ pc' = "bt_loop"
    /\ UNCHANGED <<tables, score_call, runner, first_run, driver, pre_assignments, schedule, ds, direct_result,
                   solver, partial_assignment, lab_idx, solve_result, attempt>>

\* One pass of the value loop of the innermost call: a value that passes
\* is_consistent and forward_check is assigned and backtrack is called again.
BacktrackTryValue ==
    /\ pc = "bt_loop"
    /\ steps < SearchStepLimit
    /\ steps' = steps + 1
    /\ LET top == stack[Len(stack)]
           ordered_values == order_domain_values(solver, top.var)
       IN /\ top.idx <= Len(ordered_values)
          /\ LET value == ordered_values[top.idx] IN
             IF /\ is_consistent(top.var, value, solver.assignment)
                /\ forward_check(solver, top.var, value)
             THEN /\ solver' = [solver EXCEPT
                                   !.assignment = DictSet(@, top.var, value)]
                  /\ pc' = "bt_enter"
                  /\ UNCHANGED stack
             ELSE /\ stack' = [stack EXCEPT ![Len(stack)].idx = @ + 1]
                  /\ UNCHANGED <<solver, pc>>
    /\ UNCHANGED <<tables, score_call, runner, first_run, driver, pre_assignments, schedule, ds, direct_result,
                   partial_assignment, lab_idx, solve_result, attempt>>

\* Variant of BacktrackExhausted in which the call whose value loop ran out
\* does not return.
BacktrackExhaustedStays ==
    /\ pc = "bt_loop"
    /\ steps < SearchStepLimit
    /\ stack[Len(stack)].idx > Len(order_domain_values(solver, stack[Len(stack)].var))
    /\ UNCHANGED vars

\* The value loop of the innermost call ran out: the call returns None.
BacktrackExhausted ==
    /\ pc = "bt_loop"
    /\ steps < SearchStepLimit
    /\ steps' = steps + 1
    /\ stack[Len(stack)].idx > Len(order_domain_values(solver, stack[Len(stack)].var))
    /\ pc' = "bt_return_none"
    /\ stack' = SubSeq(stack, 1, Len(stack) - 1)
    /\ UNCHANGED <<tables, score_call, runner, first_run, driver, pre_assignments, schedule, ds, direct_result,
                   solver, partial_assignment, lab_idx, solve_result, attempt>>

\* Variant of BacktrackUndo that also takes the failed value out of the
\* domain of its variable.
BacktrackUndoPrunesValue ==
    /\ pc = "bt_return_none"
    /\ steps < SearchStepLimit
    /\ steps' = steps + 1
    /\ IF stack = <<>>
       THEN /\ pc' = "returned_none"
            /\ UNCHANGED <<solver, stack>>
       ELSE LET top == stack[Len(stack)]
                d == solver.domains[top.var]
            IN /\ solver' = [solver EXCEPT
                                !.assignment = DictDel(@, top.var),
                                !.domains[top.var] =
                                    SubSeq(d, 1, top.idx - 1) \o SubSeq(d, top.idx + 1, Len(d))]
               /\ UNCHANGED stack
               /\ pc' = "bt_loop"
    /\ UNCHANGED <<tables, score_call, runner, first_run, driver, pre_assignments, schedule, ds, direct_result,
                   partial_assignment, lab_idx, solve_result, attempt>>

\* Variant of BacktrackUndo that goes on with the next value without deleting
\* the assignment of the value that failed.
BacktrackUndoKeepsValue ==
    /\ pc = "bt_return_none"
    /\ steps < SearchStepLimit
    /\ steps' = steps + 1
    /\ IF stack = <<>>
       THEN /\ pc' = "returned_none"
            /\ UNCHANGED <<solver, stack>>
       ELSE /\ stack' = [stack EXCEPT ![Len(stack)].idx = @ + 1]
            /\ pc' = "bt_loop"
            /\ UNCHANGED solver
    /\ UNCHANGED <<tables, score_call, runner, first_run, driver, pre_assignments, schedule, ds, direct_result,
                   partial_assignment, lab_idx, solve_result, attempt>>

\* A call returned None to the call that made it: that call deletes its
\* assignment and goes on with its next value; the outermost call returns
\* None to CSPSolver.solve.
BacktrackUndo ==
    /\ pc = "bt_return_none"
    /\ steps < SearchStepLimit
    /\ steps' = steps + 1
    /\ IF stack = <<>>
       THEN /\ pc' = "returned_none"
            /\ UNCHANGED <<solver, stack>>
       ELSE /\ solver' = [solver EXCEPT
                             !.assignment = DictDel(@, stack[Len(stack)].var)]
            /\ stack' = [stack EXCEPT ![Len(stack)].idx = @ + 1]
            /\ pc' = "bt_loop"
    /\ UNCHANGED <<tables, score_call, runner, first_run, driver, pre_assignments, schedule, ds, direct_result,
                   partial_assignment, lab_idx, solve_result, attempt>>

\* _convert_solution_to_schedule: one entry per item of the solution, in
\* insertion order
\* next(..., {}): the record of the id, or an empty one
Lookup(table, id) == IF HasId(table, id) THEN ById(table, id) ELSE <<>>

ConvertEntry(item) ==
    [faculty_id |-> item[2][1],
     faculty_name |-> Get(Lookup(faculty, item[2][1]), "name", ""),
     subject_id |-> item[1][1],
     subject_name |-> Get(Lookup(subjects, item[1][1]), "name", ""),
     has_lab |-> IF HasId(subjects, item[1][1])
                 THEN IsLabSubject(ById(subjects, item[1][1])) ELSE FALSE,
     timeslot_id |-> item[1][2],
     day |-> Get(Lookup(timeslots, item[1][2]), "day", ""),
     time |-> Get(Lookup(timeslots, item[1][2]), "time", ""),
     classroom_id |-> item[2][2],
     classroom_name |-> Get(Lookup(classrooms, item[2][2]), "name", ""),
     made_by |-> "convert"]

\* Variant of convert_solution_to_schedule that makes entries for the first
\* timeslot only.
convert_first_timeslot_only(solution) ==
    LET atFirst(item) == item[1][2] = timeslots[1].id
        kept == SelectSeq(solution, atFirst)
    IN [i \in 1..Len(kept) |-> ConvertEntry(kept[i])]

convert_solution_to_schedule(solution) ==
    [i \in 1..Len(solution) |-> ConvertEntry(solution[i])]

\* solve after a search that returned an assignment: the schedule is built
\* and solve returns True.
SolveSucceed ==
    /\ pc = "returned_solution"
    /\ schedule' = convert_solution_to_schedule(solver.assignment)
    /\ solve_result' = "true"
    /\ pc' = "done"
    /\ UNCHANGED <<tables, score_call, runner, first_run, driver, pre_assignments, ds, direct_result, solver,
                   partial_assignment, lab_idx, stack, attempt, steps>>

\* solve after the search with the caller's pre_assignments returned None:
\* the assignment is reset and the hybrid approach follows.
SolveRetryHybrid ==
    /\ pc = "returned_none"
    /\ attempt = "pre_assignments"
    /\ solver' = [solver EXCEPT !.assignment = <<>>]
    /\ attempt' = "hybrid"
    /\ pc' = "hybrid"
    /\ UNCHANGED <<tables, score_call, runner, first_run, driver, pre_assignments, schedule, ds, direct_result,
                   partial_assignment, lab_idx, stack, solve_result, steps>>

\* solve after the hybrid search returned None: solve returns False.
SolveFail ==
    /\ pc = "returned_none"
    /\ attempt = "hybrid"
    /\ solve_result' = "false"
    /\ pc' = "failed"
    /\ UNCHANGED <<tables, score_call, runner, first_run, driver, pre_assignments, schedule, ds, direct_result,
                   solver, partial_assignment, lab_idx, stack, attempt, steps>>

Next ==
    \/ DirectSolveBegin
    \/ DirectSolveSubject
    \/ DirectSolveSucceed
    \/ SolveSetup
    \/ SolveSeedPreAssignments
    \/ HybridPreAssign
    \/ HybridSeed
    \/ CSPSolverSolve
    \/ BacktrackEnter
    \/ BacktrackTryValue
    \/ BacktrackExhausted
    \/ BacktrackUndo
    \/ SolveSucceed
    \/ SolveRetryHybrid
    \/ SolveFail

Spec == Init /\ [][Next]_vars

\* ---------------------------------------------------------------- properties
\* A placement is one class meeting: subject, timeslot, faculty, classroom.

Placement(s, t, f, c) == [subject |-> s, timeslot |-> t, faculty |-> f, classroom |-> c]

AssignmentPlacements(a) ==
    [k \in 1..Len(a) |-> Placement(a[k][1][1], a[k][1][2], a[k][2][1], a[k][2][2])]

SchedulePlacements(sched) ==
    [k \in 1..Len(sched) |-> Placement(sched[k].subject_id, sched[k].timeslot_id,
                                       sched[k].faculty_id, sched[k].classroom_id)]

SubjectIds == { subjects[i].id : i \in 1..Len(subjects) }

HoursOfSubject == [sid \in SubjectIds |-> ById(subjects, sid).hours]

\* hours of the distinct subjects a faculty holds in the placements
DistinctSubjectHours(P, f) ==
    SumOver({ P[k].subject : k \in { j \in 1..Len(P) : P[j].faculty = f } }, HoursOfSubject)

\* hours of the subjects of a faculty, one term per placement
PlacementHours(P, f) ==
    SumOver({ j \in 1..Len(P) : P[j].faculty = f },
            [k \in 1..Len(P) |-> HoursOfSubject[P[k].subject]])

NoFacultyDoubleBooked(P) ==
    \A i, j \in 1..Len(P) :
        (i # j /\ P[i].faculty = P[j].faculty) => P[i].timeslot # P[j].timeslot

NoClassroomReused(P) ==
    \A i, j \in 1..Len(P) :
        (i # j /\ P[i].classroom = P[j].classroom) => P[i].timeslot # P[j].timeslot

\* the classroom record with the id carries has_lab = True
HasLabFlagTrue(cid) ==
    \E i \in 1..Len(classrooms) :
        /\ classrooms[i].id = cid
        /\ "has_lab" \in DOMAIN classrooms[i]
        /\ classrooms[i].has_lab = TRUE

LabSubjectsInLabRooms(P) ==
    \A k \in 1..Len(P) :
        ById(subjects, P[k].subject).lab_hours > 0 => HasLabFlagTrue(P[k].classroom)

QualifiedPlacements(P) ==
    \A k \in 1..Len(P) : P[k].subject \in ById(faculty, P[k].faculty).qualified_subjects

\* the four hard constraints on the placements of a CSP assignment
HardConstraintsHold(P) ==
    /\ \A i \in 1..Len(faculty) :
          DistinctSubjectHours(P, faculty[i].id) <= faculty[i].max_hours
    /\ NoFacultyDoubleBooked(P)
    /\ NoClassroomReused(P)
    /\ LabSubjectsInLabRooms(P)

CoversEachSubjectOnce(sched) ==
    /\ Len(sched) = Len(subjects)
    /\ \A i \in 1..Len(subjects) :
          Cardinality({ k \in 1..Len(sched) : sched[k].subject_id = subjects[i].id }) = 1

Searching == pc \in {"bt_enter", "bt_loop", "bt_return_none", "returned_solution"}

\* C1: when FacultyScheduler.solve returns True, the returned assignment binds
\* every registered variable exactly once, to a value of that variable's own
\* domain, and satisfies the four constraints: per faculty the hours of its
\* distinct subjects are within max_hours, no faculty has two variables at one
\* timeslot, no classroom is used twice at one timeslot, and every variable of
\* a lab subject is in a classroom with has_lab true.
C1_SolveSound ==
    solve_result = "true" =>
        LET a == solver.assignment IN
        /\ \A i \in 1..Len(solver.variables) :
              Cardinality({ k \in 1..Len(a) : a[k][1] = solver.variables[i] }) = 1
        /\ \A k \in 1..Len(a) :
              /\ a[k][1] \in Range(solver.variables)
              /\ a[k][2] \in Range(solver.domains[a[k][1]])
        /\ HardConstraintsHold(AssignmentPlacements(a))

\* solve returned True for a problem with every (subject, timeslot) variable
\* registered, so that a faculty holds one subject at two timeslots
C1_Witness ==
    /\ solve_result = "true"
    /\ ~IsSample
    /\ Len(solver.variables) = Len(subjects) * Len(timeslots)
    /\ Len(solver.assignment) = Len(solver.variables)

\* C2: when direct_solve returns True, its schedule has no faculty in two
\* entries of one timeslot, no (classroom, timeslot) pair in two entries, per
\* faculty the summed hours of its subjects within max_hours, and every lab
\* subject in a classroom whose has_lab flag is true.
C2_DirectSound ==
    direct_result = "true" =>
        LET P == SchedulePlacements(schedule) IN
        /\ NoFacultyDoubleBooked(P)
        /\ NoClassroomReused(P)
        /\ \A i \in 1..Len(faculty) :
              PlacementHours(P, faculty[i].id) <= faculty[i].max_hours
        /\ LabSubjectsInLabRooms(P)

\* C3: in a schedule produced by direct_solve returning True or by
\* FacultyScheduler.solve returning True, the subject of every entry is in
\* the qualified_subjects of the faculty of that entry.
C3_Qualified ==
    (direct_result = "true" \/ solve_result = "true") =>
        QualifiedPlacements(SchedulePlacements(schedule))

\* the CSP path returned a schedule although some faculty is not qualified for
\* some subject of the schedule
C3_Witness ==
    /\ solve_result = "true"
    /\ schedule # <<>>
    /\ \E i \in 1..Len(faculty) : \E k \in 1..Len(schedule) :
          schedule[k].subject_id \notin faculty[i].qualified_subjects

\* Some complete assignment of the registered variables, each from its own
\* domain, satisfies the four constraints.
Solvable(sv) ==
    LET n == Len(sv.variables)
        values == UNION { Range(sv.domains[sv.variables[i]]) : i \in 1..n }
    IN \E g \in [1..n -> values] :
          /\ \A i \in 1..n : g[i] \in Range(sv.domains[sv.variables[i]])
          /\ HardConstraintsHold(
                 [i \in 1..n |-> Placement(sv.variables[i][1], sv.variables[i][2],
                                           g[i][1], g[i][2])])

\* C4: FacultyScheduler.solve returns False only when no complete assignment
\* of the registered variables from their domains satisfies the four
\* constraints; a lab pre-assignment that cannot be extended never makes solve
\* fail on a problem that has a solution.
C4_FailureMeansUnsolvable ==
    solve_result = "false" => ~Solvable(solver)

\* solve returned False on a registered problem after a lab pre-assignment had
\* been made
C4_Witness ==
    /\ solve_result = "false"
    /\ Len(solver.variables) >= 2
    /\ partial_assignment # <<>>

\* a subject without qualified faculty, or a lab subject without a has_lab
\* classroom: its variables have empty domains at setup
HasEmptyDomain(subject) ==
    \/ \A i \in 1..Len(faculty) : subject.id \notin faculty[i].qualified_subjects
    \/ /\ subject.lab_hours > 0
       /\ \A i \in 1..Len(classrooms) : ~HasLabFlagTrue(classrooms[i].id)

\* C5: with a subject whose variables have empty domains at setup, solve never
\* returns True with a schedule that omits the subject, and no (subject,
\* timeslot) variable is left out of the problem that was set up.
C5_EmptyDomainReported ==
    (\E i \in 1..Len(subjects) : HasEmptyDomain(subjects[i])) =>
        /\ solve_result = "true" =>
              \A i \in 1..Len(subjects) :
                  \E k \in 1..Len(schedule) : schedule[k].subject_id = subjects[i].id
        /\ attempt # "none" =>
              \A i \in 1..Len(subjects) : \A j \in 1..Len(timeslots) :
                  <<subjects[i].id, timeslots[j].id>> \in Range(solver.variables)

\* C6: on the simple sample dataset the schedule of the direct path, and the
\* schedule of the CSP path run on its own, covers each of the 5 subjects
\* exactly once, satisfies the hard constraints and has subjects 1 and 2 in
\* classrooms 3 or 4.  A schedule of the CSP path has one entry per registered
\* variable, so the problem set up has one variable per subject.
C6_SampleSchedule ==
    IsSample =>
        /\ (direct_result = "true" \/ solve_result = "true") =>
              /\ CoversEachSubjectOnce(schedule)
              /\ HardConstraintsHold(SchedulePlacements(schedule))
              /\ QualifiedPlacements(SchedulePlacements(schedule))
              /\ \A k \in 1..Len(schedule) :
                    schedule[k].subject_id \in {1, 2} => schedule[k].classroom_id \in {3, 4}
        /\ (driver = "csp_only" /\ attempt # "none") =>
              \A i \in 1..Len(subjects) :
                  Cardinality({ k \in 1..Len(solver.variables) :
                                  solver.variables[k][1] = subjects[i].id }) = 1

\* every subject has a qualified faculty and an eligible classroom, and its
\* hours exceed the max_hours of every faculty qualified for it
OverSubscribed ==
    \A i \in 1..Len(subjects) :
        /\ ~HasEmptyDomain(subjects[i])
        /\ \A j \in 1..Len(faculty) :
              subjects[i].id \in faculty[j].qualified_subjects
                  => subjects[i].hours > faculty[j].max_hours

\* C7: with over-subscribed faculty direct_solve returns False and
\* FacultyScheduler.solve returns False: neither ever returns True, and a run
\* that has ended has ended in failure.
C7_OverSubscribedFails ==
    OverSubscribed =>
        /\ direct_result # "true"
        /\ solve_result # "true"
        /\ pc # "done"
        /\ pc = "failed" => solve_result = "false"
        /\ (driver = "main" /\ pc \notin {"start", "direct"}) => direct_result = "false"

\* both direct_solve and solve have returned False with over-subscribed faculty
C7_Witness ==
    /\ OverSubscribed
    /\ direct_result = "false"
    /\ solve_result = "false"
    /\ solver.variables # <<>>

\* the seed of the search that is running
SearchSeed == IF attempt = "pre_assignments" THEN pre_assignments ELSE partial_assignment

\* C8: while a seeded search runs, and in the solution it returns, every
\* seeded variable has its seeded value.
C8_SeedKept ==
    Searching =>
        \A k \in 1..Len(SearchSeed) :
            /\ SearchSeed[k][1] \in DictKeys(solver.assignment)
            /\ DictGet(solver.assignment, SearchSeed[k][1]) = SearchSeed[k][2]

EntriesMadeByDirect == \A k \in 1..Len(schedule) : schedule[k].made_by = "direct_solve"

\* C9 as stated: in any run that goes through FacultyScheduler.solve, the CSP
\* setup and search start only after direct_solve returned False, and after
\* direct_solve returned True the schedule is the one it built and the CSP
\* engine has not run.
C9_DirectFirstAlways ==
    /\ attempt # "none" => direct_result = "false"
    /\ direct_result = "true" =>
          /\ EntriesMadeByDirect
          /\ solver = NewSolver
          /\ attempt = "none"
          /\ steps = 0

\* C9 amended: in the runs of main and run_with_sample the CSP setup and
\* search start only after direct_solve returned False, and after direct_solve
\* returned True the schedule is the one it built and the CSP engine has not
\* run; FacultyScheduler.solve itself does not call direct_solve.
C9_DirectFirstInMain ==
    driver = "main" =>
        /\ attempt # "none" => direct_result = "false"
        /\ solve_result # "none" => direct_result = "false"
        /\ direct_result = "true" =>
              /\ EntriesMadeByDirect
              /\ solver = NewSolver
              /\ attempt = "none"
              /\ steps = 0
              /\ solve_result = "none"

\* the main driver is in the backtracking search after a failed direct_solve
C9_Witness ==
    /\ driver = "main"
    /\ direct_result = "false"
    /\ pc = "bt_loop"
    /\ solver.assignment # <<>>

\* C10: when direct_solve returns True the schedule has exactly one entry for
\* each subject of the input and no other entry.
C10_DirectCoversSubjects ==
    direct_result = "true" =>
        /\ CoversEachSubjectOnce(schedule)
        /\ \A k \in 1..Len(schedule) : schedule[k].subject_id \in SubjectIds

\* direct_solve returned True for an input with lab and non-lab subjects
C10_Witness ==
    /\ direct_result = "true"
    /\ Len(schedule) >= 2
    /\ \E i, j \in 1..Len(subjects) : subjects[i].lab_hours > 0 /\ subjects[j].lab_hours = 0

\* hours direct_solve has given to a faculty in the entries made so far
ScheduledHours(sched, f) ==
    SumOver({ k \in 1..Len(sched) : sched[k].faculty_id = f },
            [k \in 1..Len(sched) |-> HoursOfSubject[sched[k].subject_id]])

\* (faculty, timeslot, classroom) is open for the subject after the entries
\* made so far: the faculty is qualified and stays within max_hours, it is
\* free at the timeslot, and the classroom is one direct_solve allows for the
\* subject and is free at the timeslot
OpenCombination(sched, subject, f, t, c) ==
    /\ subject.id \in f.qualified_subjects
    /\ ScheduledHours(sched, f.id) + subject.hours <= f.max_hours
    /\ \A k \in 1..Len(sched) :
          /\ ~(sched[k].faculty_id = f.id /\ sched[k].timeslot_id = t.id)
          /\ ~(sched[k].classroom_id = c.id /\ sched[k].timeslot_id = t.id)
    /\ c \in Range(DirectPossibleClassrooms(subject))

Placeable(sched, subject) ==
    \E i \in 1..Len(faculty) : \E j \in 1..Len(timeslots) : \E k \in 1..Len(classrooms) :
        OpenCombination(sched, subject, faculty[i], timeslots[j], classrooms[k])

\* lab subjects come first, by hours + lab_hours descending, then the others
\* by hours descending
InDirectOrder(seq) ==
    \A i, j \in 1..Len(seq) :
        i < j =>
            /\ seq[i].lab_hours = 0 => seq[j].lab_hours = 0
            /\ (seq[i].lab_hours > 0 /\ seq[j].lab_hours > 0) =>
                  seq[i].hours + seq[i].lab_hours >= seq[j].hours + seq[j].lab_hours
            /\ (seq[i].lab_hours = 0 /\ seq[j].lab_hours = 0) =>
                  seq[i].hours >= seq[j].hours

\* some schedule with one entry per subject satisfies the conditions
\* direct_solve places entries under
DirectSchedulable ==
    LET n == Len(subjects)
        combos == (1..Len(faculty)) \X (1..Len(timeslots)) \X (1..Len(classrooms))
        entries(g) == [i \in 1..n |->
                          [faculty_id |-> faculty[g[i][1]].id, subject_id |-> subjects[i].id,
                           timeslot_id |-> timeslots[g[i][2]].id,
                           classroom_id |-> classrooms[g[i][3]].id]]
    IN \E g \in [1..n -> combos] :
          \A i \in 1..n :
              OpenCombination(SubSeq(entries(g), 1, i - 1), subjects[i],
                              faculty[g[i][1]], timeslots[g[i][2]], classrooms[g[i][3]])

\* C11: direct_solve takes the subjects in its fixed order and never revises
\* an entry it made: at each subject it appends exactly one entry, an open
\* (faculty, timeslot, classroom) combination, if one exists, and otherwise
\* it returns False at that subject.
C11_GreedyNoRevision ==
    [][ pc = "direct" =>
          LET ordered == DirectOrderedSubjects IN
          /\ InDirectOrder(ordered)
          /\ Len(schedule') >= Len(schedule)
          /\ SubSeq(schedule', 1, Len(schedule)) = schedule
          /\ ds.idx = Len(schedule) + 1
          /\ ds.idx <= Len(ordered) =>
                LET subject == ordered[ds.idx] IN
                IF Placeable(schedule, subject)
                THEN /\ Len(schedule') = Len(schedule) + 1
                     /\ direct_result' = "none"
                     /\ LET e == schedule'[Len(schedule')] IN
                        /\ e.subject_id = subject.id
                        /\ OpenCombination(schedule, subject, ById(faculty, e.faculty_id),
                                           ById(timeslots, e.timeslot_id),
                                           ById(classrooms, e.classroom_id))
                ELSE /\ schedule' = schedule
                     /\ direct_result' = "false"
      ]_vars

\* direct_solve returned False after making an entry, on an input for which a
\* different choice for the earlier subject gives a complete schedule
C11_Witness ==
    /\ direct_result = "false"
    /\ schedule # <<>>
    /\ ~IsSample
    /\ \A i \in 1..Len(classrooms) : "has_lab" \in DOMAIN classrooms[i]
    /\ DirectSchedulable

\* ---------------------------------------------------------------- CSPSolver.add_variable
\* The engine on its own: a caller registers variables one call at a time.

MaxAddCalls == 3

\* the variables and candidate lists a caller passes
CallerVariables == (1..NumSubjects) \X (1..NumTimeslots)
CallerDomains == { <<>>, << <<1, 1>> >>, << <<1, 1>>, <<2, 1>> >> }

\* the state every other part of the run is left in
Idle ==
    /\ SampleInstance
    /\ driver = "csp_only"
    /\ pre_assignments = <<>>
    /\ schedule = <<>>
    /\ ds = DirectLocals
    /\ direct_result = "none"
    /\ partial_assignment = <<>>
    /\ lab_idx = 0
    /\ stack = <<>>
    /\ solve_result = "none"
    /\ attempt = "none"
    /\ steps = 0
    /\ first_run = NoRun
    /\ runner = NoRunner
    /\ score_call = NoScoreCall

EngineInit ==
    /\ Idle
    /\ pc = "engine"
    /\ solver = NewSolver

\* self.variables.append(variable); self.domains[variable] = domain.copy()
add_variable(variable, domain) ==
    /\ pc = "engine"
    /\ Len(solver.variables) < MaxAddCalls
    /\ solver' = [solver EXCEPT
                     !.variables = Append(@, variable),
                     !.domains = [v \in DOMAIN @ \cup {variable} |->
                                     IF v = variable THEN domain ELSE @[v]]]
    /\ UNCHANGED <<tables, score_call, runner, first_run, driver, pre_assignments, pc, schedule, ds, direct_result,
                   partial_assignment, lab_idx, stack, solve_result, attempt, steps>>

EngineNext ==
    \E variable \in CallerVariables : \E domain \in CallerDomains :
        add_variable(variable, domain)

EngineSpec == EngineInit /\ [][EngineNext]_vars

\* C12: add_variable for a variable that is already registered fails and
\* leaves the variable list and the domains unchanged, so that no variable is
\* twice in the variable list.
C12_NoDuplicateVariable ==
    \A i, j \in 1..Len(solver.variables) :
        i # j => solver.variables[i] # solver.variables[j]

\* ---------------------------------------------------------------- a second run
\* The same calls made again on the scheduler object of a run that has ended:
\* self.schedule and self.solver are as the first run left them.

RunAgain ==
    /\ pc \in {"done", "failed"}
    /\ ~first_run.ran
    /\ first_run' = [ran |-> TRUE, direct_result |-> direct_result,
                     solve_result |-> solve_result, schedule |-> schedule,
                     assignment |-> solver.assignment]
    /\ pc' = "start"
    /\ direct_result' = "none"
    /\ solve_result' = "none"
    /\ steps' = 0
    /\ UNCHANGED <<tables, score_call, runner, driver, pre_assignments, schedule, ds, solver,
                   partial_assignment, lab_idx, stack, attempt>>

RerunInit ==
    /\ Init
    /\ driver \in {"main", "csp_only"}

RerunNext ==
    \/ DirectSolveBegin
    \/ DirectSolveSubject
    \/ DirectSolveSucceed
    \/ SolveSetup
    \/ HybridPreAssign
    \/ HybridSeed
    \/ CSPSolverSolve
    \/ BacktrackEnter
    \/ BacktrackTryValue
    \/ BacktrackExhausted
    \/ BacktrackUndo
    \/ SolveSucceed
    \/ SolveFail
    \/ RunAgain

RerunSpec == RerunInit /\ [][RerunNext]_vars

\* C13: a second run on the same tables, made on the same scheduler object,
\* returns what the first run returned: the same results of direct_solve and
\* solve, the same schedule and the same variable-to-value assignment.
C13_SameResultAgain ==
    (first_run.ran /\ pc \in {"done", "failed"}) =>
        /\ direct_result = first_run.direct_result
        /\ solve_result = first_run.solve_result
        /\ schedule = first_run.schedule
        /\ solver.assignment = first_run.assignment

\* a second run has ended after the first had left a schedule and a solver
\* with an assignment behind
C13_Witness ==
    /\ first_run.ran
    /\ pc = "done"
    /\ first_run.schedule # <<>>
    /\ first_run.assignment # <<>>
    /\ first_run.direct_result = "false"

\* the registered variables without a value
Unassigned(sv) == Range(sv.variables) \ DictKeys(sv.assignment)

\* the other unassigned variables that share the subject id or the timeslot id
DegreeCount(sv, v) ==
    Cardinality({ u \in Unassigned(sv) : u # v /\ (u[1] = v[1] \/ u[2] = v[2]) })

\* C14: at every call, select_unassigned_variable returns None exactly when
\* every registered variable is assigned; otherwise it returns an unassigned
\* variable whose domain is no larger than that of any unassigned variable and
\* whose degree count is at least that of every unassigned variable with a
\* domain of the same size.
C14_MinimumRemainingValues ==
    pc = "bt_enter" =>
        LET sel == select_unassigned_variable(solver) IN
        /\ sel = <<>> <=> Unassigned(solver) = {}
        /\ sel # <<>> =>
              /\ sel[1] \in Unassigned(solver)
              /\ \A u \in Unassigned(solver) :
                    /\ Len(solver.domains[sel[1]]) <= Len(solver.domains[u])
                    /\ Len(solver.domains[sel[1]]) = Len(solver.domains[u])
                          => DegreeCount(solver, sel[1]) >= DegreeCount(solver, u)

\* a call in which an earlier registered unassigned variable has a larger
\* domain than the selected one, and another in the same call has a domain of
\* the same size and a smaller degree count
C14_Witness ==
    /\ pc = "bt_enter"
    /\ LET sel == select_unassigned_variable(solver) IN
       /\ sel # <<>>
       /\ \E u \in Unassigned(solver) :
             Len(solver.domains[u]) > Len(solver.domains[sel[1]])
       /\ \E u \in Unassigned(solver) :
             /\ Len(solver.domains[u]) = Len(solver.domains[sel[1]])
             /\ DegreeCount(solver, u) < DegreeCount(solver, sel[1])

\* ---------------------------------------------------------------- forward checking
\* Inputs with twelve variables, so that the search passes the assignment
\* size at which forward_check rejects: a lab subject with one lab classroom
\* and a second subject whose only faculty is also qualified for the first.

WideSubjects ==
    << [id |-> 1, hours |-> 3, lab_hours |-> 2],
       [id |-> 2, hours |-> 3, lab_hours |-> 0] >>

WideClassrooms ==
    << [id |-> 1, has_lab |-> TRUE], [id |-> 2, has_lab |-> FALSE],
       [id |-> 3, has_lab |-> FALSE] >>

WideFacultyTables ==
    { << [id |-> 1, qualified_subjects |-> {1, 2}, max_hours |-> 20,
          day_preferences |-> DefaultProfile.day_preferences,
          time_preferences |-> DefaultProfile.time_preferences,
          preference_weight |-> DefaultProfile.preference_weight,
          consecutive_classes_preference |-> 0],
         [id |-> 2, qualified_subjects |-> q, max_hours |-> 20,
          day_preferences |-> DefaultProfile.day_preferences,
          time_preferences |-> DefaultProfile.time_preferences,
          preference_weight |-> DefaultProfile.preference_weight,
          consecutive_classes_preference |-> 0] >> : q \in {{}, {1}} }

WideInit ==
    /\ faculty \in WideFacultyTables
    /\ subjects = WideSubjects
    /\ classrooms = WideClassrooms
    /\ timeslots = SampleTimeslots
    /\ driver = "csp_only"
    /\ pre_assignments = <<>>
    /\ pc = "start"
    /\ schedule = <<>>
    /\ ds = DirectLocals
    /\ direct_result = "none"
    /\ solver = NewSolver
    /\ partial_assignment = <<>>
    /\ lab_idx = 0
    /\ stack = <<>>
    /\ solve_result = "none"
    /\ attempt = "none"
    /\ steps = 0
    /\ first_run = NoRun
    /\ runner = NoRunner
    /\ score_call = NoScoreCall

WideNext ==
    \/ SolveSetup
    \/ HybridPreAssign
    \/ HybridSeed
    \/ CSPSolverSolve
    \/ BacktrackEnter
    \/ BacktrackTryValue
    \/ BacktrackExhausted
    \/ BacktrackUndo
    \/ SolveSucceed
    \/ SolveFail

WideSpec == WideInit /\ [][WideNext]_vars

\* the registered variables without a value in the assignment, in
\* registration order
Remaining(sv, a) ==
    LET open(v) == v \notin DictKeys(a) IN SelectSeq(sv.variables, open)

\* Exhaustive search without forward checking: the placements P can be
\* completed by values for rest[k..] with the four constraints holding.
RECURSIVE Completable(_, _, _, _)
Completable(sv, P, rest, k) ==
    /\ HardConstraintsHold(P)
    /\ \/ k > Len(rest)
       \/ \E i \in 1..Len(sv.domains[rest[k]]) :
             Completable(sv,
                         Append(P, Placement(rest[k][1], rest[k][2],
                                             sv.domains[rest[k]][i][1],
                                             sv.domains[rest[k]][i][2])),
                         rest, k + 1)

Extendable(sv, a) == Completable(sv, AssignmentPlacements(a), Remaining(sv, a), 1)

\* the value the innermost call of backtrack is about to try, as <<value>>,
\* when it passes is_consistent
CandidateValue ==
    IF pc = "bt_loop" /\ stack[Len(stack)].idx <= Len(solver.domains[stack[Len(stack)].var])
    THEN LET value == solver.domains[stack[Len(stack)].var][stack[Len(stack)].idx]
         IN IF is_consistent(stack[Len(stack)].var, value, solver.assignment)
            THEN <<value>> ELSE <<>>
    ELSE <<>>

\* C15: when forward_check returns False for a value, no complete assignment
\* extends the current assignment with that value; and solve finds a solution
\* exactly when exhaustive search without forward checking finds one.
C15_ForwardCheckSound ==
    /\ CandidateValue # <<>> =>
          (~forward_check(solver, stack[Len(stack)].var, CandidateValue[1])
              => ~Extendable(solver, DictSet(solver.assignment, stack[Len(stack)].var,
                                             CandidateValue[1])))
    /\ solve_result = "true" => Extendable(solver, <<>>)
    /\ solve_result = "false" => ~Extendable(solver, <<>>)

\* forward_check returns False for a consistent value on an input that has a
\* solution
C15_Witness ==
    /\ CandidateValue # <<>>
    /\ ~forward_check(solver, stack[Len(stack)].var, CandidateValue[1])
    /\ Extendable(solver, <<>>)

\* ---------------------------------------------------------------- run_with_csp_only
\* The driver runs FacultyScheduler.solve in a thread and joins it with a
\* timeout; the steps of the thread are the steps of solve.  Time is left
\* out: the join may expire at any moment while the thread is alive.

TimeoutInit ==
    /\ faculty \in WideFacultyTables
    /\ subjects = WideSubjects
    /\ classrooms = WideClassrooms
    /\ timeslots = SampleTimeslots
    /\ driver = "csp_only"
    /\ pre_assignments = <<>>
    /\ pc = "not_started"
    /\ schedule = <<>>
    /\ ds = DirectLocals
    /\ direct_result = "none"
    /\ solver = NewSolver
    /\ partial_assignment = <<>>
    /\ lab_idx = 0
    /\ stack = <<>>
    /\ solve_result = "none"
    /\ attempt = "none"
    /\ steps = 0
    /\ first_run = NoRun
    /\ runner = NoRunner
    /\ score_call = NoScoreCall

ThreadAlive == runner.thread = "running"

\* solver_thread.start(); the driver goes on to join
DriverStartThread ==
    /\ runner.main = "create"
    /\ runner' = [runner EXCEPT !.main = "join", !.thread = "running"]
    /\ pc' = "start"
    /\ UNCHANGED <<tables, score_call, first_run, driver, pre_assignments, schedule, ds,
                   direct_result, solver, partial_assignment, lab_idx, stack,
                   solve_result, attempt, steps>>

\* solve_csp after solve returned True: solution_found[0] = True, and the
\* thread ends
ThreadStoreResult ==
    /\ ThreadAlive
    /\ pc = "done"
    /\ runner' = [runner EXCEPT !.solution_found = TRUE, !.thread = "finished"]
    /\ UNCHANGED <<tables, score_call, first_run, driver, pre_assignments, pc, schedule, ds,
                   direct_result, solver, partial_assignment, lab_idx, stack,
                   solve_result, attempt, steps>>

\* solve_csp after solve returned False: the thread ends
ThreadEnd ==
    /\ ThreadAlive
    /\ pc = "failed"
    /\ runner' = [runner EXCEPT !.thread = "finished"]
    /\ UNCHANGED <<tables, score_call, first_run, driver, pre_assignments, pc, schedule, ds,
                   direct_result, solver, partial_assignment, lab_idx, stack,
                   solve_result, attempt, steps>>

\* join(timeout=20) returns because the thread has ended
DriverJoinEnds ==
    /\ runner.main = "join"
    /\ runner.thread = "finished"
    /\ runner' = [runner EXCEPT !.main = "test"]
    /\ UNCHANGED <<tables, score_call, first_run, driver, pre_assignments, pc, schedule, ds,
                   direct_result, solver, partial_assignment, lab_idx, stack,
                   solve_result, attempt, steps>>

\* join(timeout=20) returns because the 20 seconds are over
DriverJoinExpires ==
    /\ runner.main = "join"
    /\ runner.thread = "running"
    /\ runner' = [runner EXCEPT !.main = "test", !.join_expired = TRUE]
    /\ UNCHANGED <<tables, score_call, first_run, driver, pre_assignments, pc, schedule, ds,
                   direct_result, solver, partial_assignment, lab_idx, stack,
                   solve_result, attempt, steps>>

\* Variant of DriverTestAlive that looks at solution_found only.
DriverTestResultOnly ==
    /\ runner.main = "test"
    /\ runner' =
          IF ~runner.solution_found
          THEN [runner EXCEPT !.main = "returned", !.reported = "failed",
                              !.exit_code = 1]
          ELSE [runner EXCEPT !.main = "display", !.reported = "found"]
    /\ UNCHANGED <<tables, score_call, first_run, driver, pre_assignments, pc, schedule, ds,
                   direct_result, solver, partial_assignment, lab_idx, stack,
                   solve_result, attempt, steps>>

\* if solver_thread.is_alive(): ... return 1; if not solution_found[0]: ...
\* return 1; print("Solution found!")
DriverTestAlive ==
    /\ runner.main = "test"
    /\ runner' =
          IF ThreadAlive
          THEN [runner EXCEPT !.main = "returned", !.seen_alive = TRUE,
                              !.reported = "timeout", !.exit_code = 1]
          ELSE IF ~runner.solution_found
          THEN [runner EXCEPT !.main = "returned", !.reported = "failed",
                              !.exit_code = 1]
          ELSE [runner EXCEPT !.main = "display", !.reported = "found"]
    /\ UNCHANGED <<tables, score_call, first_run, driver, pre_assignments, pc, schedule, ds,
                   direct_result, solver, partial_assignment, lab_idx, stack,
                   solve_result, attempt, steps>>

\* display_schedule() and save_schedule(); a failed save returns 1
DriverDisplayAndSave ==
    /\ runner.main = "display"
    /\ \E saved \in BOOLEAN :
          runner' = [runner EXCEPT !.main = "returned", !.displayed = TRUE,
                                   !.saved = saved,
                                   !.exit_code = IF saved THEN 0 ELSE 1]
    /\ UNCHANGED <<tables, score_call, first_run, driver, pre_assignments, pc, schedule, ds,
                   direct_result, solver, partial_assignment, lab_idx, stack,
                   solve_result, attempt, steps>>

TimeoutNext ==
    \/ DriverStartThread
    \/ SolveSetup
    \/ HybridPreAssign
    \/ HybridSeed
    \/ CSPSolverSolve
    \/ BacktrackEnter
    \/ BacktrackTryValue
    \/ BacktrackExhausted
    \/ BacktrackUndo
    \/ SolveSucceed
    \/ SolveFail
    \/ ThreadStoreResult
    \/ ThreadEnd
    \/ DriverJoinEnds
    \/ DriverJoinExpires
    \/ DriverTestAlive
    \/ DriverDisplayAndSave

TimeoutSpec == TimeoutInit /\ [][TimeoutNext]_vars

\* the driver shows and saves a schedule only after the thread has ended with
\* solve returning True
FoundOnlyAfterSuccess ==
    (runner.reported = "found" \/ runner.displayed \/ runner.saved) =>
        /\ runner.thread = "finished"
        /\ solve_result = "true"
        /\ runner.solution_found

PreferenceSubjects ==
    << [id |-> 1, hours |-> 3, lab_hours |-> 0],
       [id |-> 2, hours |-> 2, lab_hours |-> 2],
       [id |-> 3, hours |-> 2, lab_hours |-> 2],
       [id |-> 4, hours |-> 3, lab_hours |-> 2] >>

PreferenceClassrooms == << [id |-> 1, has_lab |-> TRUE], [id |-> 2, has_lab |-> TRUE] >>

WithProfile(f, p) ==
    [f EXCEPT !.day_preferences = p.day_preferences,
              !.time_preferences = p.time_preferences,
              !.preference_weight = p.preference_weight,
              !.consecutive_classes_preference = p.consecutive_classes_preference]

PreferenceBaseFaculty ==
    << WithProfile([id |-> 1, qualified_subjects |-> {3, 4}, max_hours |-> 6,
                    day_preferences |-> {}, time_preferences |-> {},
                    preference_weight |-> 10, consecutive_classes_preference |-> 0],
                   DefaultProfile),
       WithProfile([id |-> 2, qualified_subjects |-> {1, 2, 3, 4}, max_hours |-> 6,
                    day_preferences |-> {}, time_preferences |-> {},
                    preference_weight |-> 10, consecutive_classes_preference |-> 0],
                   DefaultProfile),
       WithProfile([id |-> 3, qualified_subjects |-> {2, 4}, max_hours |-> 3,
                    day_preferences |-> {}, time_preferences |-> {},
                    preference_weight |-> 10, consecutive_classes_preference |-> 0],
                   DefaultProfile) >>

\* the tables that differ from the base table in preference fields only
PreferenceFacultyTables ==
    { [i \in 1..Len(PreferenceBaseFaculty) |-> WithProfile(PreferenceBaseFaculty[i], ps[i])] :
        ps \in [1..Len(PreferenceBaseFaculty) -> PrefProfiles] }

\* all four subjects, or the first alone
PreferenceSubjectTables == {PreferenceSubjects, SubSeq(PreferenceSubjects, 1, 1)}

PreferenceInit ==
    /\ faculty \in PreferenceFacultyTables
    /\ subjects \in PreferenceSubjectTables
    /\ classrooms = PreferenceClassrooms
    /\ timeslots \in TimeslotTables
    /\ driver \in {"main", "csp_only"}
    /\ pre_assignments = <<>>
    /\ pc = "start"
    /\ schedule = <<>>
    /\ ds = DirectLocals
    /\ direct_result = "none"
    /\ solver = NewSolver
    /\ partial_assignment = <<>>
    /\ lab_idx = 0
    /\ stack = <<>>
    /\ solve_result = "none"
    /\ attempt = "none"
    /\ steps = 0
    /\ first_run = NoRun
    /\ runner = NoRunner
    /\ score_call = NoScoreCall

\* The run is repeated by a new scheduler on tables with other preferences.
RunWithOtherPreferences ==
    /\ pc \in {"done", "failed"}
    /\ ~first_run.ran
    /\ first_run' = [ran |-> TRUE, direct_result |-> direct_result,
                     solve_result |-> solve_result, schedule |-> schedule,
                     assignment |-> solver.assignment]
    /\ faculty' \in PreferenceFacultyTables \ {faculty}
    /\ pc' = "start"
    /\ schedule' = <<>>
    /\ ds' = DirectLocals
    /\ direct_result' = "none"
    /\ solver' = NewSolver
    /\ partial_assignment' = <<>>
    /\ lab_idx' = 0
    /\ stack' = <<>>
    /\ solve_result' = "none"
    /\ attempt' = "none"
    /\ steps' = 0
    /\ UNCHANGED <<subjects, classrooms, timeslots, runner, score_call, driver,
                   pre_assignments>>

PreferenceNext ==
    \/ DirectSolveBegin
    \/ DirectSolveSubject
    \/ DirectSolveSucceed
    \/ SolveSetup
    \/ HybridPreAssign
    \/ HybridSeed
    \/ CSPSolverSolve
    \/ BacktrackEnter
    \/ BacktrackTryValue
    \/ BacktrackExhausted
    \/ BacktrackUndo
    \/ SolveSucceed
    \/ SolveFail
    \/ RunWithOtherPreferences

PreferenceSpec == PreferenceInit /\ [][PreferenceNext]_vars

\* C17: two runs on tables that differ in preference fields only end alike:
\* direct_solve returns the same in both, and solve returns the same in both.
C17_PreferencesNeverDecide ==
    (first_run.ran /\ pc \in {"done", "failed"}) =>
        /\ direct_result = first_run.direct_result
        /\ solve_result = first_run.solve_result

\* the part of C17 about solve alone
SolveAloneSameResult ==
    (first_run.ran /\ pc \in {"done", "failed"} /\ driver = "csp_only") =>
        solve_result = first_run.solve_result

\* ---------------------------------------------------------------- the score alone
\* calculate_faculty_preference_score called once on arguments drawn from
\* small sets.  preference_weight is kept in tenths and the score 250-fold,
\* as everywhere in the model.

ScoreDays == {"Monday", "Tuesday"}
ScoreTimeslotTables ==
    { << [id |-> 1, day |-> d[1], period |-> "Morning"],
         [id |-> 2, day |-> d[2], period |-> "Morning"],
         [id |-> 3, day |-> d[3], period |-> "Afternoon"] >> :
        d \in [1..3 -> ScoreDays] }

ScoreWeights == {0, 1, 10, 50, 70}
ScoreConsecutivePreferences == {-5, 0, 3}

ScoreFaculty ==
    { [id |-> 1, qualified_subjects |-> {1}, max_hours |-> 20,
       day_preferences |-> dp, time_preferences |-> tp,
       preference_weight |-> w, consecutive_classes_preference |-> c] :
        dp \in {{}, {"Monday"}}, tp \in {{}, {"Morning"}},
        w \in ScoreWeights, c \in ScoreConsecutivePreferences }

\* faculty_id -> set of timeslot ids; the faculty member may be missing
ScoreSchedules ==
    { [k \in {2} |-> {}] } \cup { [k \in {1, 2} |-> IF k = 1 THEN ts ELSE {1, 2, 3}] :
                                    ts \in SUBSET (1..3) }

ScoreInit ==
    /\ timeslots \in ScoreTimeslotTables
    /\ \E f \in ScoreFaculty : \E t \in 1..3 : \E cs \in ScoreSchedules :
          /\ faculty = <<f>>
          /\ score_call = [returned |-> FALSE, faculty |-> f,
                           timeslot |-> timeslots[t], current_schedule |-> cs]
    /\ subjects = <<[id |-> 1, hours |-> 1, lab_hours |-> 0]>>
    /\ classrooms = <<[id |-> 1, has_lab |-> FALSE]>>
    /\ driver = "main"
    /\ pre_assignments = <<>>
    /\ pc = "score"
    /\ schedule = <<>>
    /\ ds = DirectLocals
    /\ direct_result = "none"
    /\ solver = NewSolver
    /\ partial_assignment = <<>>
    /\ lab_idx = 0
    /\ stack = <<>>
    /\ solve_result = "none"
    /\ attempt = "none"
    /\ steps = 0
    /\ first_run = NoRun
    /\ runner = NoRunner

\* the call returns; it assigns to locals only
ScoreCall ==
    /\ pc = "score"
    /\ ~score_call.returned
    /\ score_call' =
          [returned |-> TRUE, faculty |-> score_call.faculty,
           timeslot |-> score_call.timeslot,
           current_schedule |-> score_call.current_schedule,
           result |-> calculate_faculty_preference_score(
                          score_call.faculty, score_call.timeslot,
                          score_call.current_schedule)]
    /\ UNCHANGED <<tables, runner, first_run, driver, pre_assignments, pc, schedule,
                   ds, direct_result, solver, partial_assignment, lab_idx, stack,
                   solve_result, attempt, steps>>

ScoreNext == ScoreCall

ScoreSpec == ScoreInit /\ [][ScoreNext]_vars

\* the schedule gives the faculty member a class at a timeslot of the same
\* day whose id differs by exactly 1
ClassNextDoor(f, timeslot, current_schedule) ==
    /\ f.id \in DOMAIN current_schedule
    /\ \E i \in 1..Len(timeslots) :
          /\ timeslots[i].day = timeslot.day
          /\ timeslots[i].id - timeslot.id \in {-1, 1}
          /\ timeslots[i].id \in current_schedule[f.id]

\* 250 times (3 [day] + 2 [period] + A) * min(5, max(0.1, weight)) / 5
StatedScore(f, timeslot, current_schedule) ==
    LET day == IF timeslot.day \in f.day_preferences THEN 3 ELSE 0
        period == IF timeslot.period \in f.time_preferences THEN 2 ELSE 0
        fiveA == IF ClassNextDoor(f, timeslot, current_schedule)
                 THEN 2 * f.consecutive_classes_preference ELSE 0
        tenWeight == IF f.preference_weight < 1 THEN 1
                     ELSE IF f.preference_weight > 50 THEN 50
                     ELSE f.preference_weight
    IN (5 * day + 5 * period + fiveA) * tenWeight

\* C18: the score returned is (3 [day preferred] + 2 [period preferred] + A)
\* * min(5, max(0.1, weight)) / 5, with A = 2 * consecutive preference / 5
\* when the schedule gives the faculty member a class next door on the same
\* day and 0 otherwise; the call leaves its arguments and the scheduler as
\* they were.
C18_ScoreFormula ==
    [][ (~score_call.returned /\ score_call'.returned) =>
          /\ score_call'.result =
                StatedScore(score_call.faculty, score_call.timeslot,
                            score_call.current_schedule)
          /\ score_call'.faculty = score_call.faculty
          /\ score_call'.timeslot = score_call.timeslot
          /\ score_call'.current_schedule = score_call.current_schedule
          /\ UNCHANGED <<tables, schedule, solver, ds>> ]_vars

\* a call has returned a score in which the class next door counted against
\* a timeslot of a preferred day, under a weight above the cap
C18_Witness ==
    /\ score_call.returned
    /\ ClassNextDoor(score_call.faculty, score_call.timeslot, score_call.current_schedule)
    /\ score_call.faculty.consecutive_classes_preference < 0
    /\ score_call.timeslot.day \in score_call.faculty.day_preferences
    /\ score_call.faculty.preference_weight > 50
    /\ score_call.result = (15 - 10) * 50

\* ---------------------------------------------------------------- the search

\* the unassigned variables none of whose values is consistent with the
\* engine's assignment
WipedOut(sv) ==
    { v \in Unassigned(sv) :
        \A k \in 1..Len(sv.domains[v]) :
            ~is_consistent(v, sv.domains[v][k], sv.assignment) }

\* backtrack has just assigned a value and called itself
JustCommitted == pc = "bt_enter" /\ stack # <<>>

\* C19: backtrack never commits a value that leaves some unassigned variable
\* without a consistent value, whatever the size of the assignment: when
\* backtrack has assigned a value and calls itself, no unassigned variable is
\* wiped out.
C19_NoCommitOverWipeout ==
    JustCommitted => WipedOut(solver) = {}

\* C20: in every state of CSPSolver.solve the engine's assignment satisfies
\* each of the four registered constraints, its keys are registered
\* variables, and each key is bound to a value of its own domain.
C20_AssignmentConsistent ==
    Searching =>
        /\ faculty_requirements_constraint(solver.assignment)
        /\ no_faculty_conflicts_constraint(solver.assignment)
        /\ no_classroom_collision_constraint(solver.assignment)
        /\ handle_labs_constraint(solver.assignment)
        /\ \A i \in 1..Len(solver.assignment) :
              /\ solver.assignment[i][1] \in Range(solver.variables)
              /\ solver.assignment[i][2] \in Range(solver.domains[solver.assignment[i][1]])

\* the search holds two values, and the value it is about to try for a third
\* variable is in conflict with them
C20_Witness ==
    /\ pc = "bt_loop"
    /\ Len(solver.assignment) >= 2
    /\ LET top == stack[Len(stack)]
           ordered_values == order_domain_values(solver, top.var)
       IN /\ top.idx <= Len(ordered_values)
          /\ ~is_consistent(top.var, ordered_values[top.idx], solver.assignment)

\* the values the calls of backtrack on the stack have assigned, outermost
\* first: what the assignment was when the innermost of them called backtrack
Commits(frames) ==
    [i \in 1..Len(frames) |->
        <<frames[i].var, order_domain_values(solver, frames[i].var)[frames[i].idx]>>]

\* C21: when a call of backtrack returns None the assignment is what it was
\* when the call started, namely the values assigned by the calls around it;
\* when CSPSolver.solve has returned None the assignment is empty.
C21_UndoRestores ==
    /\ pc \in {"bt_enter", "bt_return_none"} => solver.assignment = Commits(stack)
    /\ pc = "returned_none" => solver.assignment = <<>>

\* the search has returned None after more steps than a search takes that
\* assigns nothing
C21_Witness ==
    /\ ~IsSample
    /\ pc = "returned_none"
    /\ steps > NumFaculty * NumClassrooms + 3

\* the innermost call of backtrack and the value of the registered domain its
\* value loop is at
TopFrame == stack[Len(stack)]
ValueAtTop == solver.domains[TopFrame.var][TopFrame.idx]
PassesChecks ==
    /\ is_consistent(TopFrame.var, ValueAtTop, solver.assignment)
    /\ forward_check(solver, TopFrame.var, ValueAtTop)

QualifiedEligiblePairs(subject_id) ==
    LET s == ById(subjects, subject_id) IN
    { p \in FacultyIds \X {classrooms[j].id : j \in 1..Len(classrooms)} :
             /\ subject_id \in ById(faculty, p[1]).qualified_subjects
             /\ Get(s, "lab_hours", 0) > 0 => Get(ById(classrooms, p[2]), "has_lab", FALSE) }

\* the score of the faculty of a value for the timeslot of a variable, with
\* an empty schedule
ScoreAt(value, timeslot_id) ==
    calculate_faculty_preference_score(ById(faculty, value[1]),
                                       ById(timeslots, timeslot_id), <<>>)

\* setup_csp has just returned to FacultyScheduler.solve
SetupDone == pc \in {"pre", "hybrid"} /\ lab_idx = 1 /\ partial_assignment = <<>>

\* C23: after setup_csp the domain of each registered variable (s, t) lists
\* exactly the pairs of a faculty qualified for s and a classroom eligible
\* for s, each once, with the faculty's score for t not increasing along the
\* list.
C23_DomainsAsStated ==
    SetupDone =>
        \A i \in 1..Len(solver.variables) :
            LET v == solver.variables[i]
                d == solver.domains[v]
            IN /\ Range(d) = QualifiedEligiblePairs(v[1])
               /\ Len(d) = Cardinality(Range(d))
               /\ \A k \in 1..(Len(d) - 1) : ScoreAt(d[k], v[2]) >= ScoreAt(d[k + 1], v[2])

\* setup_csp has registered a variable whose domain begins with the second
\* faculty member, who scores higher for the timeslot than the first
C23_Witness ==
    /\ ~IsSample
    /\ SetupDone
    /\ \E i \in 1..Len(solver.variables) :
          LET v == solver.variables[i]
              d == solver.domains[v]
          IN /\ Len(d) >= 2
             /\ d[1][1] > d[Len(d)][1]
             /\ ScoreAt(d[1], v[2]) > ScoreAt(d[Len(d)], v[2])

\* FacultyScheduler.solve is between the return of setup_csp and the return
\* of the search
AfterSetupBeforeReturn ==
    pc \in {"pre", "hybrid", "call_solve", "bt_enter", "bt_loop", "bt_return_none"}

\* C24: from the return of setup_csp to the return of the search no step
\* changes the variable list, a domain, or one of the four tables; the steps
\* of the search change the assignment and nothing else of the scheduler or
\* the solver.
C24_SearchFrame ==
    [][ AfterSetupBeforeReturn =>
          /\ solver'.variables = solver.variables
          /\ solver'.domains = solver.domains
          /\ UNCHANGED tables
          /\ Searching => UNCHANGED <<schedule, pre_assignments, partial_assignment>> ]_vars

\* the search has assigned and deleted values and has returned a solution,
\* with the variables and domains setup_csp had registered
C24_Witness ==
    /\ ~IsSample
    /\ pc = "returned_solution"
    /\ Len(solver.variables) >= 2
    /\ steps > 2 * Len(solver.variables) + 1
    /\ solver.variables = setup_csp.variables
    /\ solver.domains = setup_csp.domains

\* ---------------------------------------------------------------- termination
\* The program runs on: a step that can be taken is taken.  The inputs are
\* small instances, whose searches end within the step limit: the second
\* faculty member has max_hours 4 and the first subject has 3 hours.

LiveInit ==
    /\ Init
    /\ ~IsSample
    /\ driver \in {"main", "csp_only"}
    /\ faculty[2].max_hours = 4
    /\ subjects[1].hours = 3

LiveNext ==
    \/ DirectSolveBegin
    \/ DirectSolveSubject
    \/ DirectSolveSucceed
    \/ SolveSetup
    \/ HybridPreAssign
    \/ HybridSeed
    \/ CSPSolverSolve
    \/ BacktrackEnter
    \/ BacktrackTryValue
    \/ BacktrackExhausted
    \/ BacktrackUndo
    \/ SolveSucceed
    \/ SolveFail

\* the guards of the three steps that sort: each is enabled exactly when
\* its guard holds
DirectSolveSubjectEnabled == pc = "direct" /\ ds.idx <= Len(DirectOrderedSubjects)
SolveSetupEnabled == pc = "solve" \/ (pc = "start" /\ driver = "csp_only")
HybridPreAssignEnabled == pc = "hybrid" /\ lab_idx <= Len(HybridLabVariables(solver))

\* the steps whose weak fairness is written with WF
LiveOtherSteps ==
    \/ DirectSolveBegin
    \/ DirectSolveSucceed
    \/ HybridSeed
    \/ CSPSolverSolve
    \/ BacktrackEnter
    \/ BacktrackTryValue
    \/ BacktrackExhausted
    \/ BacktrackUndo
    \/ SolveSucceed
    \/ SolveFail

\* Weak fairness of every step; for the three steps that sort it is written
\* out with the guard in place of ENABLED.
LiveSpec ==
    /\ LiveInit
    /\ [][LiveNext]_vars
    /\ WF_vars(LiveOtherSteps)
    /\ ([]<>(~DirectSolveSubjectEnabled) \/ []<><<DirectSolveSubject>>_vars)
    /\ ([]<>(~SolveSetupEnabled) \/ []<><<SolveSetup>>_vars)
    /\ ([]<>(~HybridPreAssignEnabled) \/ []<><<HybridPreAssign>>_vars)

\* C25: CSPSolver.solve, once called, returns a complete assignment or None,
\* and direct_solve, once called, returns True or False.
C25_Terminates ==
    /\ (pc = "bt_enter") ~> (pc \in {"returned_solution", "returned_none"})
    /\ (pc = "direct") ~> (direct_result \in {"true", "false"})

\* direct_solve has returned False and the search that followed has assigned
\* and deleted values and has returned None
C25_Witness ==
    /\ direct_result = "false"
    /\ pc = "returned_none"
    /\ steps > NumFaculty * NumClassrooms + 3

\* ---------------------------------------------------------------- the schedule

\* C26: the schedule holds entries of a complete result only: once
\* direct_solve has returned False, and when the run has ended in failure,
\* the schedule is empty.
C26_NoPartialSchedule ==
    /\ (direct_result = "false" /\ solve_result # "true") => schedule = <<>>
    /\ pc = "failed" => schedule = <<>>

\* the fields of an entry made by direct_solve, and those display_schedule
\* reads from every entry
DirectEntryFields ==
    {"faculty_id", "faculty_name", "subject_id", "subject_name", "has_lab",
     "timeslot_id", "timeslot_day", "timeslot_time", "classroom_id", "classroom_name"}
DisplayedFields ==
    {"faculty_name", "subject_name", "timeslot_day", "timeslot_time", "classroom_name",
     "has_lab"}

\* the fields of an entry, without the model's note of which method made it
FieldsOf(entry) == DOMAIN entry \ {"made_by"}

\* C27: every entry of the schedule, whether direct_solve or the conversion
\* of a solution made it, has the fields of an entry of direct_solve, among
\* them the fields display_schedule reads.
C27_EntriesHaveDisplayedFields ==
    \A k \in 1..Len(schedule) :
        /\ FieldsOf(schedule[k]) = DirectEntryFields
        /\ DisplayedFields \subseteq FieldsOf(schedule[k])

\* the subjects that have a registered variable
RegisteredSubjects == { solver.variables[i][1] : i \in 1..Len(solver.variables) }
TimeslotIds == { timeslots[i].id : i \in 1..Len(timeslots) }

\* C28: when solve has returned True the schedule has one entry per
\* registered variable, in the order of the assignment, with the subject and
\* timeslot of the variable and the faculty and classroom of its value; every
\* registered subject has an entry at every timeslot, and at each timeslot
\* the entries have pairwise distinct faculty and pairwise distinct
\* classrooms.
C28_EntryPerVariable ==
    solve_result = "true" =>
        /\ Len(schedule) = Len(solver.variables)
        /\ Len(schedule) = Len(solver.assignment)
        /\ { <<schedule[k].subject_id, schedule[k].timeslot_id>> : k \in 1..Len(schedule) }
              = Range(solver.variables)
        /\ \A k \in 1..Len(schedule) :
              /\ <<schedule[k].subject_id, schedule[k].timeslot_id>> = solver.assignment[k][1]
              /\ <<schedule[k].faculty_id, schedule[k].classroom_id>> = solver.assignment[k][2]
        /\ \A s \in RegisteredSubjects : \A t \in TimeslotIds :
              \E k \in 1..Len(schedule) :
                  schedule[k].subject_id = s /\ schedule[k].timeslot_id = t
        /\ \A j, k \in 1..Len(schedule) :
              (j # k /\ schedule[j].timeslot_id = schedule[k].timeslot_id) =>
                  /\ schedule[j].faculty_id # schedule[k].faculty_id
                  /\ schedule[j].classroom_id # schedule[k].classroom_id

\* solve has returned True with both subjects registered: each has an entry
\* at each of the timeslots
C28_Witness ==
    /\ ~IsSample
    /\ solve_result = "true"
    /\ Cardinality(RegisteredSubjects) = NumSubjects
    /\ Len(schedule) = NumSubjects * NumTimeslots

\* ---------------------------------------------------------------- the hybrid loop

\* the registered variables of subjects with lab hours
LabVariables ==
    { v \in Range(solver.variables) :
        Get(ById(subjects, v[1]), "lab_hours", 0) > 0 }

\* the lab variable the loop is at: the one with lab_idx - 1 lab variables
\* before it in (subject id, timeslot id) order
LabVariableAt(n) ==
    CHOOSE v \in LabVariables :
        Cardinality({ u \in LabVariables :
                        u[1] < v[1] \/ (u[1] = v[1] /\ u[2] < v[2]) }) = n - 1

\* the positions of the values of a variable's domain that are consistent
\* with the partial assignment
ConsistentPositions(v) ==
    { k \in 1..Len(solver.domains[v]) :
        is_consistent(v, solver.domains[v][k], partial_assignment) }

\* C29: in the pre-assignment loop the partial assignment satisfies the four
\* constraints and binds only lab variables to classrooms with a lab; each
\* pass takes the next lab variable in (subject id, timeslot id) order and
\* appends the first value of its domain that is consistent with the partial
\* assignment, or leaves the assignment as it is when there is none.
C29_GreedyLabPreAssignment ==
    /\ [](pc = "hybrid" =>
            /\ faculty_requirements_constraint(partial_assignment)
            /\ no_faculty_conflicts_constraint(partial_assignment)
            /\ no_classroom_collision_constraint(partial_assignment)
            /\ handle_labs_constraint(partial_assignment)
            /\ \A i \in 1..Len(partial_assignment) :
                  /\ partial_assignment[i][1] \in LabVariables
                  /\ Get(ById(classrooms, partial_assignment[i][2][2]), "has_lab", FALSE))
    /\ [][ (pc = "hybrid" /\ lab_idx' # lab_idx) =>
             /\ lab_idx' = lab_idx + 1
             /\ lab_idx <= Cardinality(LabVariables)
             /\ LET v == LabVariableAt(lab_idx)
                    ok == ConsistentPositions(v)
                IN IF ok = {}
                   THEN partial_assignment' = partial_assignment
                   ELSE partial_assignment' =
                           Append(partial_assignment,
                                  <<v, solver.domains[v][CHOOSE k \in ok : \A m \in ok : k <= m]>>) ]_vars

\* the loop has bound a lab variable and has left a later one unassigned
C29_Witness ==
    /\ pc = "hybrid"
    /\ Len(partial_assignment) >= 1
    /\ lab_idx - 1 > Len(partial_assignment)
    /\ \E v \in LabVariables :
          /\ v \notin DictKeys(partial_assignment)
          /\ \E i \in 1..Len(partial_assignment) :
                \/ partial_assignment[i][1][1] < v[1]
                \/ partial_assignment[i][1][1] = v[1] /\ partial_assignment[i][1][2] < v[2]

\* ---------------------------------------------------------------- direct_solve's choice

\* direct_solve has just committed an entry for a subject without lab hours
CommitsRegularSubject ==
    /\ pc = "direct"
    /\ Len(schedule') = Len(schedule) + 1
    /\ ~schedule'[Len(schedule')].has_lab

\* the classrooms free at a timeslot before the commit
FreeRoomsAt(timeslot_id) ==
    { i \in 1..Len(classrooms) :
        <<classrooms[i].id, timeslot_id>> \notin ds.used_classroom_timeslots }

\* the positions in the timeslot table that the faculty has free before the
\* commit and at which some classroom is free
OpenSlots(faculty_id) ==
    { k \in 1..Len(timeslots) :
        /\ timeslots[k].id \notin ds.faculty_timeslots[faculty_id]
        /\ FreeRoomsAt(timeslots[k].id) # {} }

\* (-preference score, free classroom count) of the timeslot at position k
SlotScore(faculty_id, k) ==
    << -calculate_faculty_preference_score(ById(faculty, faculty_id), timeslots[k],
                                           ds.faculty_timeslots),
       Cardinality(FreeRoomsAt(timeslots[k].id)) >>

\* position k comes before position m in ascending score order, ties in
\* table order
SlotBefore(faculty_id, k, m) ==
    LET a == SlotScore(faculty_id, k)
        b == SlotScore(faculty_id, m)
    IN \/ a[1] < b[1]
       \/ a[1] = b[1] /\ a[2] < b[2]
       \/ a = b /\ k < m

====
